---- MODULE Spec2Model ----
(***************************************************************************)
(* Model of the KSA air-quality monitor: the fair benchmarking engine      *)
(* (benchmark_analyzer.py, CityBenchmarkAnalyzer) and the regional scan    *)
(* orchestrator (background_scanner.py, RegionalScanner).                  *)
(*                                                                         *)
(* Numbers.  The Python code computes on floats.  The model keeps every    *)
(* quantity exact:                                                         *)
(*   - percentages that the code rounds to one decimal (percentage_over,   *)
(*     avg_threshold_percentage, pollution_index) are integers counting    *)
(*     TENTHS of a percent point (40.0 is 400);                            *)
(*   - data_completeness, rounded to two decimals, is an integer counting  *)
(*     HUNDREDTHS (0.8 is 80);                                             *)
(*   - unrounded intermediate values (historical_score, composite) are     *)
(*     exact fractions [n |-> numerator, d |-> denominator], d > 0.        *)
(* Python dicts are functions with a string domain; dict.get(k, default)   *)
(* is Get(d, k, default).                                                  *)
(***************************************************************************)
EXTENDS Integers, Sequences, FiniteSets, TLC

VARIABLES
    \* ---- calculate_city_score applied to one city (SpecScore) ----
    city_arg,          \* the city argument
    cache_arg,         \* the cache_data argument (a cache document or {})
    violations_arg,    \* the historical_violations argument (a list)
    changed_arg,       \* the list of the second call (one record added or raised)
    score,             \* the dict returned by the last call, or NoScore
    ref_score,         \* the dict the first call returned, once a second call was made
    change             \* which call was made last

score_vars == <<city_arg, cache_arg, violations_arg, changed_arg, score, ref_score, change>>

VARIABLES
    \* ---- rank_cities applied to loaded data (SpecRank) ----
    rank_cache,        \* the cache_data argument: city -> cache document
    rank_history,      \* the historical_data argument: city -> violation list
    rankings           \* the list returned by rank_cities, or NoRanking

rank_vars == <<rank_cache, rank_history, rankings>>

VARIABLES
    \* ---- RegionalScanner and the stores it feeds (Spec) ----
    store_config,      \* how the scanner was constructed: which stores it has
    images,            \* the data source: gas -> newest regional image, or NoImage
    sat_pass,          \* the satellite pass the newest images belong to
    cache_store,       \* collection city_pollution_cache: city -> document
    violation_store,   \* the Violation Store: list of saved violation records
    results,           \* the dict returned by the last scan_all_cities, or NoResults
    clock,             \* scans made so far; the wall clock advances with them
    call,              \* history: the arguments and the faults of the last scan
    initial_cache,     \* history: cache_store as it was before the first scan
    data_scans,        \* history: city -> scans that had completeness > 0 for it
    failed_writes,     \* history: city -> such scans whose cache get/set raised
    cache_before,      \* history: cache_store as the last scan found it
    violations_before  \* history: violation_store as the last scan found it

scan_vars == <<store_config, images, sat_pass, cache_store, violation_store,
               results, clock, call, initial_cache, data_scans, failed_writes,
               cache_before, violations_before>>

VARIABLES
    \* ---- get_gas_leaderboard applied to loaded data (SpecBoard) ----
    board_cache,       \* the cache_data argument: city -> cache document
    board_gas,         \* the gas argument
    leaderboard        \* the list returned by get_gas_leaderboard, or NoBoard

board_vars == <<board_cache, board_gas, leaderboard>>

VARIABLES
    \* ---- compare_cities applied to loaded data (SpecCompare) ----
    cmp_cache,         \* the cache_data argument: city -> cache document
    cmp_history,       \* the historical_data argument: city -> violation list
    cmp_city1,         \* the city1_name argument
    cmp_city2,         \* the city2_name argument
    comparison,        \* the dict returned by compare_cities(city1, city2)
    mirrored           \* the dict returned by compare_cities(city2, city1)

compare_vars == <<cmp_cache, cmp_history, cmp_city1, cmp_city2, comparison, mirrored>>

VARIABLES
    \* ---- one analyzer instance and calls of calculate_city_score (SpecInstance) ----
    self_cache_data,       \* self._cache_data: city -> cache document
    self_historical_data,  \* self._historical_data: city -> violation list
    call_args,             \* the arguments of the two calls, None included
    first_score,           \* the dict the first call returned, or NoScore
    second_score,          \* the dict the second call returned, or NoScore
    loads                  \* load_all_data calls made between the two

instance_vars == <<self_cache_data, self_historical_data, call_args,
                   first_score, second_score, loads>>

VARIABLES
    \* ---- get_stale_cities applied to a cache collection (SpecStale) ----
    st_db,             \* whether _ensure_db() returns a client
    st_store,          \* the cache collection: city -> document
    st_now,            \* the wall clock of the call, in ms
    st_max_age,        \* the max_age_hours argument
    st_raises,         \* the cities whose document read raises
    st_result          \* the list returned by get_stale_cities, or NoStale

stale_vars == <<st_db, st_store, st_now, st_max_age, st_raises, st_result>>

VARIABLES
    \* ---- the category of a composite score (SpecCategory) ----
    cat_composite,     \* the composite score
    cat_result         \* the category found for it, or "none"

category_vars == <<cat_composite, cat_result>>

VARIABLES
    \* ---- the gas loop of scan_all_cities, query by query (SpecFetch) ----
    ft_ee,             \* whether _ensure_ee() succeeds
    ft_collection,     \* the data source: gas -> images, newest first
    ft_outage,         \* the gases whose collection query raises
    ft_cities,         \* the number of configured cities
    ft_next,           \* the place in config.GAS_PRODUCTS of the next gas
    ft_city_next,      \* the place in self.cities of the next city
    ft_calls,          \* gas -> number of fetch_regional_gas_data calls
    ft_queries,        \* gas -> the windows (days) the collection was asked for
    ft_images,         \* gas_images: gas -> the image fetched
    ft_phase           \* where the scan stands: "fetching", "no_data", "extracting"

fetch_vars == <<ft_ee, ft_collection, ft_outage, ft_cities, ft_next, ft_city_next,
                ft_calls, ft_queries, ft_images, ft_phase>>

VARIABLES
    \* ---- extract_city_stats applied to one reduction (SpecExtract) ----
    ex_stats,          \* what reduceRegion returns for the city: mean, max, min
    ex_gas,            \* the gas argument
    ex_city,           \* the city argument
    ex_threshold,      \* the column_threshold the configuration gives the gas
    ex_result          \* the dict returned, or NoStats

extract_vars == <<ex_stats, ex_gas, ex_city, ex_threshold, ex_result>>

VARIABLES
    \* ---- two scans writing one city's document (SpecInterleave) ----
    il_doc,            \* the city's document in the cache collection
    il_initial,        \* the document before the two scans
    il_pc,             \* scan -> "get", "set", "done" or "failed"
    il_read            \* scan -> the monitoring_stats its get returned

interleave_vars == <<il_doc, il_initial, il_pc, il_read>>

\* the state of the specifications that apply one operation on its own
unit_vars == <<stale_vars, category_vars, fetch_vars, extract_vars, interleave_vars>>

vars == <<score_vars, rank_vars, scan_vars, board_vars, compare_vars, instance_vars,
          unit_vars>>

-----------------------------------------------------------------------------
(* Static configuration (config.py).                                       *)

\* config.CITIES in key order; three of the 21 configured cities.
CityList == <<"Yanbu", "Jeddah", "Jubail">>

Cities == {CityList[i] : i \in DOMAIN CityList}

\* RegionalScanner.cities: the scan is modelled over the first two cities
ScanCityList == SubSeq(CityList, 1, 2)

ScanCities == {ScanCityList[i] : i \in DOMAIN ScanCityList}

\* config.GAS_PRODUCTS in key order; two of the five configured gases
GasList == <<"NO2", "SO2">>

Gases == {GasList[i] : i \in DOMAIN GasList}

\* config.GAS_THRESHOLDS[gas]['column_threshold'].  Column values are
\* counted in hundredths of the gas's configured threshold, so that every
\* threshold is 100 units.
ColumnThreshold(gas) == IF gas \in Gases THEN 100 ELSE 0

\* config.CITIES[city]['region']
Region(city) ==
    IF city \in {"Yanbu", "Jeddah"} THEN "Western"
    ELSE IF city = "Jubail" THEN "Eastern" ELSE "Unknown"

-----------------------------------------------------------------------------
(* Python helpers.                                                         *)

\* dict.get(k, default)
Get(d, k, default) == IF k \in DOMAIN d THEN d[k] ELSE default

\* the empty dict {} (falsy)
EmptyDict == <<>>

RECURSIVE GCD(_, _)
GCD(a, b) == IF b = 0 THEN a ELSE GCD(b, a % b)

Abs(a) == IF a < 0 THEN -a ELSE a

\* The fraction n/d, d > 0, in lowest terms.
Frac(n, d) ==
    LET g == GCD(Abs(n), d)
    IN  [n |-> n \div g, d |-> d \div g]

FracLeq(a, b) == a.n * b.d <= b.n * a.d

FracLess(a, b) == a.n * b.d < b.n * a.d

FracEq(a, b) == a.n * b.d = b.n * a.d

\* min(a, b) on fractions
FracMin(a, b) == IF FracLeq(a, b) THEN a ELSE b

\* round(x, digits) of a non-negative fraction, counted in units of
\* 1/scale (scale = 10^digits); a tie goes to the even unit as Python's round
\* does on an exactly representable tie.
RoundTo(x, scale) ==
    LET t == (scale * x.n) \div x.d
        r == scale * x.n - t * x.d
    IN  IF 2 * r < x.d THEN t
        ELSE IF 2 * r > x.d THEN t + 1
        ELSE IF t % 2 = 0 THEN t ELSE t + 1

\* round(x, 1), in tenths
Round1(x) == RoundTo(x, 10)

\* round(x, 2), in hundredths
Round2(x) == RoundTo(x, 100)

RECURSIVE SumSeq(_)
SumSeq(s) == IF s = <<>> THEN 0 ELSE Head(s) + SumSeq(Tail(s))

-----------------------------------------------------------------------------
(* CityBenchmarkAnalyzer: scoring.                                         *)

\* WEIGHT_LIVE = 0.7 and WEIGHT_HISTORICAL = 0.3, in tenths
WEIGHT_LIVE == 7
WEIGHT_HISTORICAL == 3

\* RANK_CATEGORIES in dict order: name, min, max (max of the last is inf)
RANK_CATEGORIES ==
    << [name |-> "cleanest", min |-> 0, max |-> 30, inf |-> FALSE],
       [name |-> "clean", min |-> 30, max |-> 60, inf |-> FALSE],
       [name |-> "moderate", min |-> 60, max |-> 90, inf |-> FALSE],
       [name |-> "polluted", min |-> 90, max |-> 120, inf |-> FALSE],
       [name |-> "heavily_polluted", min |-> 120, max |-> 120, inf |-> TRUE] >>

\* v.get('percentage_over', 0) in tenths; truthy when non-zero
PercentageOver(v) == Get(v, "percentage_over", 0)

\* lines 171-173: [violation_count, critical_count, moderate_count]
CriticalCount(violations) ==
    Len(SelectSeq(violations, LAMBDA v : Get(v, "severity", "") = "critical"))

\* the exceedances list without the truthiness filter of line 179
Exceedances_Unfiltered(violations) ==
    [i \in DOMAIN violations |-> PercentageOver(violations[i])]

\* line 179: the exceedances list
Exceedances(violations) ==
    LET kept == SelectSeq(violations, LAMBDA v : PercentageOver(v) # 0)
    IN  [i \in DOMAIN kept |-> PercentageOver(kept[i])]

\* historical_score without the cap of line 184
HistoricalScore_Uncapped(violations) ==
    IF violations = <<>> THEN Frac(0, 1)
    ELSE
        LET critical_count == CriticalCount(violations)
            moderate_count == Len(violations) - critical_count
            exceedances == Exceedances(violations)
            k == IF exceedances = <<>> THEN 1 ELSE Len(exceedances)
        IN  Frac(25 * k * (6 * moderate_count + 9 * critical_count)
                   + SumSeq(exceedances), 50 * k)

\* historical_score with the exceedance bonus subtracted instead of added
HistoricalScore_BonusSubtracted(violations) ==
    IF violations = <<>> THEN Frac(0, 1)
    ELSE
        LET critical_count == CriticalCount(violations)
            moderate_count == Len(violations) - critical_count
            exceedances == Exceedances(violations)
            k == IF exceedances = <<>> THEN 1 ELSE Len(exceedances)
        IN  FracMin(Frac(25 * k * (6 * moderate_count + 9 * critical_count)
                           - SumSeq(exceedances), 50 * k),
                    Frac(50, 1))

\* lines 170-184: historical_score as an exact fraction.
\*   weighted*3 = 3*moderate + 4.5*critical = (6m + 9c)/2
\*   avg_exceedance*0.2 = (S/10)/k * 0.2 = S/(50k), S the sum in tenths
HistoricalScore(violations) ==
    IF violations = <<>> THEN Frac(0, 1)
    ELSE
        LET violation_count == Len(violations)
            critical_count == CriticalCount(violations)
            moderate_count == violation_count - critical_count
            exceedances == Exceedances(violations)
            k == IF exceedances = <<>> THEN 1 ELSE Len(exceedances)
            S == SumSeq(exceedances)
            raw == Frac(25 * k * (6 * moderate_count + 9 * critical_count) + S, 50 * k)
        IN  FracMin(raw, Frac(50, 1))

\* lines 155-166: [live_score (tenths), active_violations, data_quality (hundredths)]
LiveFields(cache_data) ==
    IF cache_data # EmptyDict /\ Get(cache_data, "metrics", EmptyDict) # EmptyDict
    THEN LET metrics == cache_data["metrics"]
         IN  [live_score |-> Get(metrics, "avg_threshold_percentage", 0),
              active_violations |-> Get(metrics, "active_violations", 0),
              data_quality |-> Get(metrics, "data_completeness", 0)]
    ELSE [live_score |-> 0, active_violations |-> 0, data_quality |-> 0]

\* the composite with the neutral score of line 197 at 60
Composite_Neutral60(live_score, data_quality, historical_score, violations) ==
    IF data_quality > 30
    THEN Frac(WEIGHT_LIVE * live_score * historical_score.d
                + 10 * WEIGHT_HISTORICAL * historical_score.n,
              100 * historical_score.d)
    ELSE IF violations # <<>>
    THEN Frac(historical_score.n + 30 * historical_score.d, historical_score.d)
    ELSE Frac(60, 1)

\* the composite with line 189 reading data_quality >= 0.3
Composite_AtLeast(live_score, data_quality, historical_score, violations) ==
    IF data_quality >= 30
    THEN Frac(WEIGHT_LIVE * live_score * historical_score.d
                + 10 * WEIGHT_HISTORICAL * historical_score.n,
              100 * historical_score.d)
    ELSE IF violations # <<>>
    THEN Frac(historical_score.n + 30 * historical_score.d, historical_score.d)
    ELSE Frac(50, 1)

\* lines 189-197: the composite score as an exact fraction
Composite(live_score, data_quality, historical_score, violations) ==
    IF data_quality > 30
    THEN \* live/10 * 0.7 + hist * 0.3
         Frac(WEIGHT_LIVE * live_score * historical_score.d
                + 10 * WEIGHT_HISTORICAL * historical_score.n,
              100 * historical_score.d)
    ELSE IF violations # <<>>
    THEN Frac(historical_score.n + 30 * historical_score.d, historical_score.d)
    ELSE Frac(50, 1)

RECURSIVE CategoryFrom_Closed(_, _)
\* the category loop with intervals (min, max] in place of [min, max)
CategoryFrom_Closed(i, composite) ==
    IF i > Len(RANK_CATEGORIES) THEN "heavily_polluted"
    ELSE LET cat_info == RANK_CATEGORIES[i]
         IN  IF /\ \/ FracLess(Frac(cat_info.min, 1), composite)
                   \/ i = 1
                /\ (cat_info.inf \/ FracLeq(composite, Frac(cat_info.max, 1)))
             THEN cat_info.name
             ELSE CategoryFrom_Closed(i + 1, composite)

RECURSIVE CategoryFrom(_, _)
\* lines 200-204: first category whose [min, max) holds the composite
CategoryFrom(i, composite) ==
    IF i > Len(RANK_CATEGORIES) THEN "heavily_polluted"
    ELSE LET cat_info == RANK_CATEGORIES[i]
         IN  IF /\ FracLeq(Frac(cat_info.min, 1), composite)
                /\ (cat_info.inf \/ FracLess(composite, Frac(cat_info.max, 1)))
             THEN cat_info.name
             ELSE CategoryFrom(i + 1, composite)

Category(composite) == CategoryFrom(1, composite)

\* lines 207-214
Confidence(data_quality, violations) ==
    LET has_live == data_quality > 50
        has_history == Len(violations) >= 3
    IN  IF has_live /\ has_history THEN "high"
        ELSE IF has_live \/ has_history THEN "medium"
        ELSE "low"

\* calculate_city_score with both optional arguments given.  The fields
\* composite and historical_exact are the function's unrounded locals.
calculate_city_score(city, cache_data, historical_violations) ==
    LET live == LiveFields(cache_data)
        historical_score == HistoricalScore(historical_violations)
        composite == Composite(live.live_score, live.data_quality,
                               historical_score, historical_violations)
    IN  [city |-> city,
         region |-> Region(city),
         pollution_index |-> Round1(composite),
         live_score |-> live.live_score,
         historical_score |-> Round1(historical_score),
         category |-> Category(composite),
         data_quality |-> live.data_quality,
         confidence |-> Confidence(live.data_quality, historical_violations),
         has_live_data |-> live.data_quality > 0,
         has_historical_data |-> Len(historical_violations) > 0,
         violation_count |-> Len(historical_violations),
         active_violations |-> live.active_violations,
         has_data |-> live.data_quality > 0 \/ Len(historical_violations) > 0,
         composite |-> composite,
         historical_exact |-> historical_score]

\* an optional argument: passed as None, or passed with a value
Omitted == [given |-> FALSE]
Given(value) == [given |-> TRUE, value |-> value]

\* the method that takes the instance's entry whenever the argument is falsy
\* ('if not cache_data' for 'if cache_data is None')
calculate_city_score_IfFalsy(loaded_cache, loaded_history, city, cache_data, historical_violations) ==
    calculate_city_score(
        city,
        IF cache_data.given /\ cache_data.value # EmptyDict THEN cache_data.value
        ELSE Get(loaded_cache, city, EmptyDict),
        IF historical_violations.given /\ historical_violations.value # <<>>
        THEN historical_violations.value
        ELSE Get(loaded_history, city, <<>>))

\* calculate_city_score as a method of an instance whose _cache_data and
\* _historical_data are loaded_cache and loaded_history: lines 141-145
\* replace an argument that is None, the rest is lines 147-232
calculate_city_score_method(loaded_cache, loaded_history, city, cache_data, historical_violations) ==
    calculate_city_score(
        city,
        IF cache_data.given THEN cache_data.value
        ELSE Get(loaded_cache, city, EmptyDict),
        IF historical_violations.given THEN historical_violations.value
        ELSE Get(loaded_history, city, <<>>))

-----------------------------------------------------------------------------
(* CityBenchmarkAnalyzer: ranking.                                         *)

\* d with key k set to v (d[k] = v on a dict)
With(d, k, v) == [x \in DOMAIN d \cup {k} |-> IF x = k THEN v ELSE d[x]]

RECURSIVE InsertByIndex_BeforeEqual(_, _)
\* x placed in front of the entries with the same pollution_index: a sort
\* that is not stable
InsertByIndex_BeforeEqual(x, sorted) ==
    IF sorted = <<>> THEN <<x>>
    ELSE IF x.pollution_index <= Head(sorted).pollution_index
         THEN <<x>> \o sorted
         ELSE <<Head(sorted)>> \o InsertByIndex_BeforeEqual(x, Tail(sorted))

RECURSIVE InsertByIndex(_, _)
\* x placed behind every entry of the sorted list whose pollution_index is
\* not larger: list.sort is stable
InsertByIndex(x, sorted) ==
    IF sorted = <<>> THEN <<x>>
    ELSE IF x.pollution_index < Head(sorted).pollution_index
         THEN <<x>> \o sorted
         ELSE <<Head(sorted)>> \o InsertByIndex(x, Tail(sorted))

RECURSIVE SortByIndex(_)
\* line 259: rankings.sort(key=lambda x: x['pollution_index'])
SortByIndex(list) ==
    IF list = <<>> THEN <<>>
    ELSE InsertByIndex(list[Len(list)], SortByIndex(SubSeq(list, 1, Len(list) - 1)))

\* rank numbers that cities with the same pollution_index share
AddRanks_Dense(list) ==
    [i \in DOMAIN list |->
        With(list[i], "rank",
             Cardinality({list[j].pollution_index : j \in 1..i}))]

\* lines 262-263: rank numbers 1.. in list order
AddRanks(list) == [i \in DOMAIN list |-> With(list[i], "rank", i)]

\* lines 250-256: one score per configured city, in self.cities order
ScoreAll(cities, cache, history) ==
    [i \in DOMAIN cities |->
        calculate_city_score(cities[i],
                             Get(cache, cities[i], EmptyDict),
                             Get(history, cities[i], <<>>))]

\* rank_cities that leaves out the cities without any data
rank_cities_WithDataOnly(cache, history) ==
    AddRanks(SortByIndex(SelectSeq(ScoreAll(CityList, cache, history),
                                   LAMBDA sc : sc.has_data)))

\* rank_cities(cache_data, historical_data), lines 234-265
rank_cities(cache, history) ==
    AddRanks(SortByIndex(ScoreAll(CityList, cache, history)))

\* lines 330-351: the leaderboard entry of one city; a value of None is an
\* absent key
GasEntry(city, cache, gas) ==
    LET city_cache == Get(cache, city, EmptyDict)
        readings == Get(city_cache, "latest_readings", EmptyDict)
        gas_reading == Get(readings, gas, EmptyDict)
    IN  IF "value" \in DOMAIN gas_reading
        THEN LET threshold == Get(gas_reading, "threshold", 1)
                 value == gas_reading["value"]
                 threshold_pct == IF threshold > 0
                                  THEN Frac(value * 100, threshold)
                                  ELSE Frac(0, 1)
             IN  [city |-> city,
                  region |-> Region(city),
                  value |-> value,
                  threshold |-> threshold,
                  threshold_percent |-> Round1(threshold_pct),
                  is_violation |-> Get(gas_reading, "is_violation", FALSE),
                  has_data |-> TRUE]
        ELSE [city |-> city,
              region |-> Region(city),
              threshold_percent |-> 0,
              is_violation |-> FALSE,
              has_data |-> FALSE]

\* the sort key without its first component
BoardBefore_PercentOnly(x, y) == x.threshold_percent < y.threshold_percent

\* line 354: key (not has_data, threshold_percent), compared as tuples
BoardBefore(x, y) ==
    \/ x.has_data /\ ~y.has_data
    \/ x.has_data = y.has_data /\ x.threshold_percent < y.threshold_percent

RECURSIVE InsertByKey(_, _)
\* x placed behind every entry of the sorted list it does not come before
InsertByKey(x, sorted) ==
    IF sorted = <<>> THEN <<x>>
    ELSE IF BoardBefore(x, Head(sorted))
         THEN <<x>> \o sorted
         ELSE <<Head(sorted)>> \o InsertByKey(x, Tail(sorted))

RECURSIVE SortByKey(_)
\* line 354: gas_rankings.sort(key=...), a stable sort
SortByKey(list) ==
    IF list = <<>> THEN <<>>
    ELSE InsertByKey(list[Len(list)], SortByKey(SubSeq(list, 1, Len(list) - 1)))

\* get_gas_leaderboard(cache_data, gas), lines 308-359
get_gas_leaderboard(cache, gas) ==
    AddRanks(SortByKey([i \in DOMAIN CityList |-> GasEntry(CityList[i], cache, gas)]))

\* lines 435-439: the reading as a percentage of its threshold; a reading
\* without value or threshold, or with one of them 0, counts as 0
ReadingPercent(r) ==
    IF /\ "value" \in DOMAIN r /\ r["value"] # 0
       /\ "threshold" \in DOMAIN r /\ r["threshold"] # 0
    THEN Frac(r["value"] * 100, r["threshold"])
    ELSE Frac(0, 1)

\* lines 430-445: the comparison of the two cities for one gas
GasComparison(city1_name, city2_name, cache1, cache2, gas) ==
    LET pct1 == ReadingPercent(Get(cache1, gas, EmptyDict))
        pct2 == ReadingPercent(Get(cache2, gas, EmptyDict))
    IN  [city1_percent |-> Round1(pct1),
         city2_percent |-> Round1(pct2),
         cleaner_city |-> IF FracLess(pct1, pct2) THEN city1_name
                          ELSE IF FracLess(pct2, pct1) THEN city2_name
                          ELSE "equal"]

\* the overall verdict that names the first city when the scores are equal
OverallCleaner_NotStrict(city1_name, city2_name, idx1, idx2) ==
    IF idx1 <= idx2 THEN city1_name ELSE city2_name

\* lines 451-459: overall_cleaner
OverallCleaner(city1_name, city2_name, idx1, idx2) ==
    IF idx1 < idx2 THEN city1_name
    ELSE IF idx2 < idx1 THEN city2_name
    ELSE "equal"

\* the difference taken relative to the second city's score in every case
Difference_OfSecond(idx1, idx2) ==
    IF idx1 = idx2 THEN Frac(0, 1)
    ELSE IF idx2 > 0 THEN Frac(Abs(idx2 - idx1) * 100, idx2)
    ELSE Frac(100, 1)

\* lines 451-459: difference, before rounding
Difference(idx1, idx2) ==
    IF idx1 < idx2
    THEN IF idx2 > 0 THEN Frac((idx2 - idx1) * 100, idx2) ELSE Frac(100, 1)
    ELSE IF idx2 < idx1
    THEN IF idx1 > 0 THEN Frac((idx1 - idx2) * 100, idx1) ELSE Frac(100, 1)
    ELSE Frac(0, 1)

\* compare_cities(city1_name, city2_name, cache_data, historical_data),
\* lines 404-482; the gases of line 426 are those of GasList
compare_cities(city1_name, city2_name, cache, history) ==
    LET score1 == calculate_city_score(city1_name,
                                       Get(cache, city1_name, EmptyDict),
                                       Get(history, city1_name, <<>>))
        score2 == calculate_city_score(city2_name,
                                       Get(cache, city2_name, EmptyDict),
                                       Get(history, city2_name, <<>>))
        cache1 == Get(Get(cache, city1_name, EmptyDict), "latest_readings", EmptyDict)
        cache2 == Get(Get(cache, city2_name, EmptyDict), "latest_readings", EmptyDict)
        idx1 == score1.pollution_index
        idx2 == score2.pollution_index
    IN  [city1 |-> [name |-> city1_name,
                    pollution_index |-> idx1,
                    category |-> score1.category,
                    violations |-> score1.violation_count],
         city2 |-> [name |-> city2_name,
                    pollution_index |-> idx2,
                    category |-> score2.category,
                    violations |-> score2.violation_count],
         overall_cleaner |-> OverallCleaner(city1_name, city2_name, idx1, idx2),
         difference_percent |-> Round1(Difference(idx1, idx2)),
         gas_comparisons |->
            [g \in Gases |-> GasComparison(city1_name, city2_name, cache1, cache2, g)]]

-----------------------------------------------------------------------------
(* RegionalScanner.                                                        *)
(*                                                                         *)
(* Times are milliseconds.  A Python None is an absent key: stats.get(k)   *)
(* is None exactly when k is not in the dict.                              *)

\* a + b on fractions
FracAdd(a, b) == Frac(a.n * b.d + b.n * a.d, a.d * b.d)

Max(a, b) == IF a >= b THEN a ELSE b

RECURSIVE FracSum(_)
\* sum(list) of a list of fractions
FracSum(list) == IF list = <<>> THEN Frac(0, 1) ELSE FracAdd(Head(list), FracSum(Tail(list)))

RECURSIVE Flatten(_)
\* the lists of a list of lists, one after the other
Flatten(lists) == IF lists = <<>> THEN <<>> ELSE Head(lists) \o Flatten(Tail(lists))

\* datetime.now() during the k-th scan: scans run config.SCAN_INTERVAL_HOURS
\* = 12 hours apart
NowMs(k) == k * 12 * 3600000

\* system:time_start of the images of satellite pass p
PassMs(p) == p * 3600000 + 250

\* line 333: .astimezone(ksa_tz).strftime('%Y-%m-%d %H:%M:%S KSA'): whole
\* seconds of Riyadh time (UTC+3)
KsaStamp(t) == (t \div 1000) + 3 * 3600

\* line 440: now.strftime('%Y-%m-%d'): the day
DateOf(t) == t \div (24 * 3600000)

\* things that can go wrong in the environment during one scan
Fault(kind, city, gas) == [kind |-> kind, city |-> city, gas |-> gas]

FaultKinds ==
    {Fault("recorder", "-", "-")}
        \cup {Fault("cache", c, "-") : c \in ScanCities}
        \cup {Fault("fetch", "-", g) : g \in Gases}
        \cup {Fault("extract", c, g) : c \in ScanCities, g \in Gases}
        \cup {Fault("timestamp", "-", g) : g \in Gases}

\* fetch_regional_gas_data returned None
NoImage == [no_image |-> TRUE]

\* fetch_regional_gas_data where one failing request leaves every gas without
\* image
fetch_regional_gas_data_Abort(gas, faults) ==
    IF gas \notin Gases THEN NoImage
    ELSE IF \E g \in Gases : Fault("fetch", "-", g) \in faults THEN NoImage
    ELSE images[gas]

\* fetch_regional_gas_data(gas, days_back), lines 91-170, by its outcome: the
\* newest valid regional image of the gas, or None when the gas is unknown,
\* the collection holds no valid image, or the request raises
fetch_regional_gas_data(gas, faults) ==
    IF gas \notin Gases THEN NoImage
    ELSE IF Fault("fetch", "-", gas) \in faults THEN NoImage
    ELSE images[gas]

\* the value as reduceRegion gave it, negative values kept
Clamp_Raw(stats, k) ==
    IF k \in DOMAIN stats THEN stats[k] ELSE 0

\* lines 218-220: max(0.0, x) if x else 0
Clamp(stats, k) ==
    IF k \in DOMAIN stats /\ stats[k] # 0 THEN Max(0, stats[k]) ELSE 0

\* extract_city_stats(image, gas, city), lines 172-240, for a configuration
\* that gives the gas the column_threshold; raises says that
\* reduceRegion(...).getInfo() raises.  image[city] holds the reduction over
\* the city's bbox.
extract_city_stats_for(image, gas, city, raises, column_threshold) ==
    IF city \notin Cities
    THEN [success |-> FALSE, error |-> "Unknown city"]
    ELSE IF raises \/ gas \notin Gases
    THEN [success |-> FALSE, error |-> "exception"]
    ELSE
        LET stats == image[city]
        IN  IF "mean" \notin DOMAIN stats /\ "max" \notin DOMAIN stats
            THEN [success |-> FALSE, error |-> "No data for city area"]
            ELSE
                LET mean_val == Clamp(stats, "mean")
                    max_val == Clamp(stats, "max")
                    min_val == Clamp(stats, "min")
                    threshold == column_threshold
                    is_violation == IF threshold > 0 THEN max_val >= threshold ELSE FALSE
                    pct_over == IF threshold > 0 /\ is_violation
                                THEN Frac((max_val - threshold) * 100, threshold)
                                ELSE Frac(0, 1)
                IN  [success |-> TRUE,
                     value |-> max_val,
                     mean |-> mean_val,
                     min |-> min_val,
                     threshold |-> threshold,
                     is_violation |-> is_violation,
                     percentage_over |-> Round1(pct_over)]

\* extract_city_stats(image, gas, city) under config.GAS_THRESHOLDS
extract_city_stats(image, gas, city, raises) ==
    extract_city_stats_for(image, gas, city, raises, ColumnThreshold(gas))

\* lines 309-317 and 343-347: the reading kept for one gas (days_old, which
\* only restates the timestamp against the wall clock, is left out)
Reading(stats, timestamp) ==
    IF stats.success
    THEN [value |-> stats.value,
          mean |-> stats.mean,
          threshold |-> stats.threshold,
          is_violation |-> stats.is_violation,
          percentage_over |-> stats.percentage_over,
          timestamp |-> timestamp]
    ELSE [error |-> stats.error, is_violation |-> FALSE]

\* lines 326-334: the violation dict of one city and gas
Violation(city, gas, stats, timestamp) ==
    [city |-> city,
     gas |-> gas,
     value |-> stats.value,
     threshold |-> stats.threshold,
     percentage_over |-> stats.percentage_over,
     severity |-> IF stats.percentage_over >= 1000 THEN "critical" ELSE "moderate",
     timestamp_ksa |-> KsaStamp(timestamp)]

\* lines 293-364: city_data of one city.  gas_images is the list of fetched
\* gases in dict order, image_of and gas_timestamps the two dicts.
CityData(city, gas_images, image_of, gas_timestamps, faults) ==
    LET stats == [g \in {gas_images[i] : i \in DOMAIN gas_images} |->
                    extract_city_stats(image_of[g], g, city,
                                       Fault("extract", city, g) \in faults)]
        successful == SelectSeq(gas_images, LAMBDA g : stats[g].success)
        with_threshold == SelectSeq(successful, LAMBDA g : stats[g].threshold > 0)
        threshold_percentages ==
            [i \in DOMAIN with_threshold |->
                Frac(stats[with_threshold[i]].value * 100,
                     stats[with_threshold[i]].threshold)]
        violating == SelectSeq(successful, LAMBDA g : stats[g].is_violation)
        violations ==
            [i \in DOMAIN violating |->
                Violation(city, violating[i], stats[violating[i]],
                          gas_timestamps[violating[i]])]
        successful_gases == Len(successful)
        data_completeness == Frac(successful_gases, Len(GasList))
        total == FracSum(threshold_percentages)
        avg_threshold_pct ==
            IF threshold_percentages = <<>> THEN Frac(0, 1)
            ELSE Frac(total.n, total.d * Len(threshold_percentages))
    IN  [city |-> city,
         region |-> Region(city),
         readings |-> [g \in DOMAIN stats |-> Reading(stats[g], gas_timestamps[g])],
         violations |-> violations,
         metrics |-> [pollution_index |-> Round1(avg_threshold_pct),
                      active_violations |-> Len(violations),
                      gases_monitored |-> successful_gases,
                      data_completeness |-> Round2(data_completeness),
                      avg_threshold_percentage |-> Round1(avg_threshold_pct)]]

\* ---- the Violation Store, as the recorder's interface describes it ----

\* recorder.violation_exists(city, gas, timestamp_ksa)
violation_exists(store, city, gas, timestamp_ksa) ==
    \E i \in DOMAIN store :
        /\ store[i].city = city
        /\ store[i].gas = gas
        /\ store[i].timestamp_ksa = timestamp_ksa

\* recorder.save_violation(violation_info, analysis)
save_violation(store, violation_info) == Append(store, violation_info)

\* _record_violation without the existence check of lines 386-392
record_violation_Unchecked(store, violation, gas, raises) ==
    IF store_config = "no_recorder" \/ raises THEN store
    ELSE save_violation(store,
            [gas |-> gas, max_value |-> violation.value,
             threshold |-> violation.threshold, severity |-> violation.severity,
             percentage_over |-> violation.percentage_over,
             city |-> violation.city, timestamp_ksa |-> violation.timestamp_ksa])

\* _record_violation(violation, gas), lines 379-415, on the store's content;
\* raises says that the recorder's calls raise
record_violation(store, violation, gas, raises) ==
    IF store_config = "no_recorder" THEN store
    ELSE IF raises THEN store
    ELSE IF violation_exists(store, violation.city, gas, violation.timestamp_ksa)
    THEN store
    ELSE save_violation(store,
            [gas |-> gas, max_value |-> violation.value,
             threshold |-> violation.threshold, severity |-> violation.severity,
             percentage_over |-> violation.percentage_over,
             city |-> violation.city, timestamp_ksa |-> violation.timestamp_ksa])

RECURSIVE RecordAll(_, _, _)
\* line 339-340 over the violations of a scan, in the order they are found
RecordAll(store, violations, raises) ==
    IF violations = <<>> THEN store
    ELSE RecordAll(record_violation(store, Head(violations), Head(violations).gas, raises),
                   Tail(violations), raises)

\* ---- the Cache Store ----

\* _ensure_db(), lines 84-89: the client, or None (FALSE) when the scanner
\* was given none and its recorder has none
EnsureDb == store_config # "no_db"

\* monitoring_stats that counts the scan twice
MonitoringStats_DoubleCount(existing_stats, now) ==
    [total_scans |-> Get(existing_stats, "total_scans", 0) + 2,
     first_scan_date |-> Get(existing_stats, "first_scan_date", DateOf(now)),
     background_scans |-> Get(existing_stats, "background_scans", 0) + 2,
     user_scans |-> Get(existing_stats, "user_scans", 0)]

\* monitoring_stats that dates the first scan anew at every write
MonitoringStats_FreshDate(existing_stats, now) ==
    [total_scans |-> Get(existing_stats, "total_scans", 0) + 1,
     first_scan_date |-> DateOf(now),
     background_scans |-> Get(existing_stats, "background_scans", 0) + 1,
     user_scans |-> Get(existing_stats, "user_scans", 0)]

\* monitoring_stats that counts the scan in total_scans only
MonitoringStats_TotalOnly(existing_stats, now) ==
    [total_scans |-> Get(existing_stats, "total_scans", 0) + 1,
     first_scan_date |-> Get(existing_stats, "first_scan_date", DateOf(now)),
     background_scans |-> Get(existing_stats, "background_scans", 0),
     user_scans |-> Get(existing_stats, "user_scans", 0)]

\* lines 438-443
MonitoringStats(existing_stats, now) ==
    [total_scans |-> Get(existing_stats, "total_scans", 0) + 1,
     first_scan_date |-> Get(existing_stats, "first_scan_date", DateOf(now)),
     background_scans |-> Get(existing_stats, "background_scans", 0) + 1,
     user_scans |-> Get(existing_stats, "user_scans", 0)]

\* lines 431-453: the document written for one city
CacheDoc(cache, city, city_data, now) ==
    LET existing_stats ==
            IF city \in DOMAIN cache
            THEN Get(cache[city], "monitoring_stats", EmptyDict)
            ELSE EmptyDict
    IN  [city |-> city,
         region |-> city_data.region,
         last_updated |-> now,
         latest_readings |-> city_data.readings,
         metrics |-> city_data.metrics,
         violations |-> city_data.violations,
         monitoring_stats |-> MonitoringStats(existing_stats, now)]

\* the cities written if a city without any reading were written too
CitiesToWrite_All(scan_results, faults) ==
    {c \in DOMAIN scan_results.cities : Fault("cache", c, "-") \notin faults}

\* the cities written if only complete scans of a city were kept
CitiesToWrite_Complete(scan_results, faults) ==
    {c \in DOMAIN scan_results.cities :
        /\ Get(scan_results.cities[c].metrics, "data_completeness", 0) = 100
        /\ Fault("cache", c, "-") \notin faults}

\* the cities _save_all_to_cache writes: lines 426-428 and the try of 430-458
CitiesToWrite(scan_results, faults) ==
    {c \in DOMAIN scan_results.cities :
        /\ Get(scan_results.cities[c].metrics, "data_completeness", 0) # 0
        /\ Fault("cache", c, "-") \notin faults}

\* _save_all_to_cache that is never reached when the recorder raised
save_all_to_cache_UnlessRecorderRaised(cache, scan_results, now, faults) ==
    IF ~EnsureDb \/ Fault("recorder", "-", "-") \in faults THEN cache
    ELSE LET written == CitiesToWrite(scan_results, faults)
         IN  [c \in DOMAIN cache \cup written |->
                IF c \in written
                THEN CacheDoc(cache, c, scan_results.cities[c], now)
                ELSE cache[c]]

\* _save_all_to_cache that starts every written city's counters afresh
save_all_to_cache_NoRead(cache, scan_results, now, faults) ==
    IF ~EnsureDb THEN cache
    ELSE LET written == CitiesToWrite(scan_results, faults)
         IN  [c \in DOMAIN cache \cup written |->
                IF c \in written
                THEN CacheDoc(EmptyDict, c, scan_results.cities[c], now)
                ELSE cache[c]]

\* _save_all_to_cache(results), lines 417-458, on the collection's content
save_all_to_cache(cache, scan_results, now, faults) ==
    IF ~EnsureDb THEN cache
    ELSE LET written == CitiesToWrite(scan_results, faults)
         IN  [c \in DOMAIN cache \cup written |->
                IF c \in written
                THEN CacheDoc(cache, c, scan_results.cities[c], now)
                ELSE cache[c]]

\* ---- scan_all_cities ----

\* lines 258-265 (scan_time, a duration, is left out)
EmptyResults(now) ==
    [cities |-> EmptyDict,
     violations |-> <<>>,
     gases_scanned |-> 0,
     cities_with_data |-> 0,
     timestamp |-> now]

\* scan_all_cities that returns the empty result unmarked when no gas image
\* was fetched
ScanResults_Unmarked(now, faults) ==
    LET image_of == [g \in Gases |-> fetch_regional_gas_data(g, faults)]
        gas_images == SelectSeq(GasList, LAMBDA g : image_of[g] # NoImage)
        gas_timestamps ==
            [g \in Gases |->
                IF Fault("timestamp", "-", g) \in faults THEN now ELSE PassMs(sat_pass)]
    IN  IF gas_images = <<>>
        THEN EmptyResults(now)
        ELSE
            LET city_data == [c \in ScanCities |->
                                CityData(c, gas_images, image_of, gas_timestamps, faults)]
            IN  [cities |-> city_data,
                 violations |->
                    Flatten([i \in DOMAIN ScanCityList |->
                                city_data[ScanCityList[i]].violations]),
                 gases_scanned |-> Len(gas_images),
                 cities_with_data |->
                    Cardinality({c \in ScanCities :
                                    city_data[c].metrics.gases_monitored > 0}),
                 timestamp |-> now]

\* lines 255-377 up to the stores: the dict scan_all_cities returns
ScanResults(now, faults) ==
    LET image_of == [g \in Gases |-> fetch_regional_gas_data(g, faults)]
        gas_images == SelectSeq(GasList, LAMBDA g : image_of[g] # NoImage)
        gas_timestamps ==
            [g \in Gases |->
                IF Fault("timestamp", "-", g) \in faults THEN now ELSE PassMs(sat_pass)]
    IN  IF gas_images = <<>>
        THEN With(EmptyResults(now), "error", "No satellite data available")
        ELSE
            LET city_data == [c \in ScanCities |->
                                CityData(c, gas_images, image_of, gas_timestamps, faults)]
            IN  [cities |-> city_data,
                 violations |->
                    Flatten([i \in DOMAIN ScanCityList |->
                                city_data[ScanCityList[i]].violations]),
                 gases_scanned |-> Len(gas_images),
                 cities_with_data |->
                    Cardinality({c \in ScanCities :
                                    city_data[c].metrics.gases_monitored > 0}),
                 timestamp |-> now]

-----------------------------------------------------------------------------
(* SpecScore: calculate_city_score applied to bounded arguments.           *)

\* longest historical_violations list
MaxViolations == 3

\* percentage_over values of a violation record, in tenths
ExceedanceInputs == {0, 500, 800, 1200, 2500}

\* violation records as the stores hold them; the last has no
\* percentage_over key
ViolationInputs ==
    {[severity |-> "moderate", percentage_over |-> 0],
     [severity |-> "moderate", percentage_over |-> 500],
     [severity |-> "moderate", percentage_over |-> 800],
     [severity |-> "critical", percentage_over |-> 1200],
     [severity |-> "critical", percentage_over |-> 2500],
     [severity |-> "moderate"]}

\* every list of at most n violation records
ViolationLists(n) == UNION {[1..k -> ViolationInputs] : k \in 0..n}

\* metrics of a cache document: avg_threshold_percentage in tenths,
\* data_completeness in hundredths
MetricsInputs ==
    {[avg_threshold_percentage |-> 0, active_violations |-> 0, data_completeness |-> 0],
     [avg_threshold_percentage |-> 0, active_violations |-> 0, data_completeness |-> 100],
     [avg_threshold_percentage |-> 400, active_violations |-> 0, data_completeness |-> 80],
     [avg_threshold_percentage |-> 1500, active_violations |-> 1, data_completeness |-> 30]}

\* the cache_data argument: {} or a document holding metrics
CacheInputs ==
    {EmptyDict} \cup {[last_updated |-> "t", metrics |-> m] : m \in MetricsInputs}

\* no call has returned yet
NoScore == EmptyDict

\* the scoring arguments when no call is made
ScoreIdle ==
    /\ city_arg = CityList[1]
    /\ cache_arg = EmptyDict
    /\ violations_arg = <<>>
    /\ changed_arg = <<>>
    /\ score = NoScore
    /\ ref_score = NoScore
    /\ change = "none"

\* the ranking arguments when no call is made
RankIdle ==
    /\ rank_cache = EmptyDict
    /\ rank_history = EmptyDict
    /\ rankings = <<[none |-> TRUE]>>

\* the leaderboard arguments when no call is made
BoardIdle ==
    /\ board_cache = EmptyDict
    /\ board_gas = GasList[1]
    /\ leaderboard = <<[none |-> TRUE]>>

\* the comparison arguments when no call is made
CompareIdle ==
    /\ cmp_cache = EmptyDict
    /\ cmp_history = EmptyDict
    /\ cmp_city1 = CityList[1]
    /\ cmp_city2 = CityList[1]
    /\ comparison = EmptyDict
    /\ mirrored = EmptyDict

\* the analyzer instance when it is not used: nothing loaded, no call made
InstanceIdle ==
    /\ self_cache_data = EmptyDict
    /\ self_historical_data = EmptyDict
    /\ call_args = EmptyDict
    /\ first_score = EmptyDict
    /\ second_score = EmptyDict
    /\ loads = 0

\* the scanner and its stores when no scan is made
ScanIdle ==
    /\ store_config = "firestore"
    /\ images = EmptyDict
    /\ sat_pass = 1
    /\ cache_store = EmptyDict
    /\ violation_store = <<>>
    /\ results = EmptyDict
    /\ clock = 0
    /\ call = EmptyDict
    /\ initial_cache = EmptyDict
    /\ data_scans = EmptyDict
    /\ failed_writes = EmptyDict
    /\ cache_before = EmptyDict
    /\ violations_before = <<>>

\* the staleness query when it is not made
StaleIdle ==
    /\ st_db = TRUE
    /\ st_store = EmptyDict
    /\ st_now = 0
    /\ st_max_age = 0
    /\ st_raises = {}
    /\ st_result = <<"none">>

\* the category lookup when it is not made
CategoryIdle ==
    /\ cat_composite = Frac(0, 1)
    /\ cat_result = "none"

\* the gas loop when it is not run
FetchIdle ==
    /\ ft_ee = TRUE
    /\ ft_collection = EmptyDict
    /\ ft_outage = {}
    /\ ft_cities = 1
    /\ ft_next = 1
    /\ ft_city_next = 1
    /\ ft_calls = EmptyDict
    /\ ft_queries = EmptyDict
    /\ ft_images = EmptyDict
    /\ ft_phase = "idle"

\* the extraction when it is not made
ExtractIdle ==
    /\ ex_stats = EmptyDict
    /\ ex_gas = GasList[1]
    /\ ex_city = CityList[1]
    /\ ex_threshold = 0
    /\ ex_result = EmptyDict

\* the shared document when no scan writes it
InterleaveIdle ==
    /\ il_doc = EmptyDict
    /\ il_initial = EmptyDict
    /\ il_pc = EmptyDict
    /\ il_read = EmptyDict

\* none of the single operations is applied
UnitIdle ==
    /\ StaleIdle
    /\ CategoryIdle
    /\ FetchIdle
    /\ ExtractIdle
    /\ InterleaveIdle

\* the analyzer and the scanner at rest
RestIdle ==
    /\ ScoreIdle
    /\ RankIdle
    /\ ScanIdle
    /\ BoardIdle
    /\ CompareIdle
    /\ InstanceIdle

\* the variables of the analyzer and the scanner specifications
rest_vars == <<score_vars, rank_vars, scan_vars, board_vars, compare_vars, instance_vars>>

ScoreInit ==
    /\ city_arg \in Cities
    /\ cache_arg \in CacheInputs
    /\ violations_arg \in ViolationLists(MaxViolations)
    /\ changed_arg = <<>>
    /\ score = NoScore
    /\ ref_score = NoScore
    /\ change = "none"
    /\ RankIdle
    /\ ScanIdle
    /\ BoardIdle
    /\ CompareIdle
    /\ InstanceIdle
    /\ UnitIdle

\* calculate_city_score(city, cache_data, historical_violations)
Score ==
    /\ change = "none"
    /\ score' = calculate_city_score(city_arg, cache_arg, violations_arg)
    /\ change' = "scored"
    /\ UNCHANGED <<city_arg, cache_arg, violations_arg, changed_arg, ref_score>>
    /\ UNCHANGED <<rank_vars, scan_vars, board_vars, compare_vars, instance_vars, unit_vars>>

\* a second call, the list holding one more violation record v
ScoreWithAddedViolation(v) ==
    /\ change = "scored"
    /\ changed_arg' = Append(violations_arg, v)
    /\ ref_score' = score
    /\ score' = calculate_city_score(city_arg, cache_arg, changed_arg')
    /\ change' = "added"
    /\ UNCHANGED <<city_arg, cache_arg, violations_arg>>
    /\ UNCHANGED <<rank_vars, scan_vars, board_vars, compare_vars, instance_vars, unit_vars>>

\* record v with percentage_over set to p, every other key kept
WithPercentageOver(v, p) ==
    [k \in DOMAIN v \cup {"percentage_over"} |->
        IF k = "percentage_over" THEN p ELSE v[k]]

\* a second call, record i of the list having its percentage_over raised to p
ScoreWithRaisedExceedance(i, p) ==
    /\ change = "scored"
    /\ i \in DOMAIN violations_arg
    /\ p > PercentageOver(violations_arg[i])
    /\ changed_arg' =
         [violations_arg EXCEPT ![i] = WithPercentageOver(@, p)]
    /\ ref_score' = score
    /\ score' = calculate_city_score(city_arg, cache_arg, changed_arg')
    /\ change' = "raised"
    /\ UNCHANGED <<city_arg, cache_arg, violations_arg>>
    /\ UNCHANGED <<rank_vars, scan_vars, board_vars, compare_vars, instance_vars, unit_vars>>

ScoreNext ==
    \/ Score
    \/ \E v \in ViolationInputs : ScoreWithAddedViolation(v)
    \/ \E i \in 1..MaxViolations, p \in ExceedanceInputs :
          ScoreWithRaisedExceedance(i, p)

SpecScore == ScoreInit /\ [][ScoreNext]_vars

-----------------------------------------------------------------------------
(* SpecRank: rank_cities applied to bounded arguments.                     *)

\* a city's cache document as the ranking reads it
RankCacheInputs ==
    {[city |-> "c", last_updated |-> "t", metrics |-> m] :
        m \in {mm \in MetricsInputs : mm.data_completeness > 30}}

\* a city's violation list as the ranking reads it
RankHistoryInputs ==
    {<<>>, <<[severity |-> "moderate", percentage_over |-> 500]>>}

\* the keys a loaded dict may hold: the configured cities and one city that
\* is not configured
DataKeys == Cities \cup {"Unknown"}

\* every dict from some of the keys to the values
Dicts(keys, values) == UNION {[ks -> values] : ks \in SUBSET keys}

\* no call has returned yet
NoRanking == <<[none |-> TRUE]>>

RankInit ==
    /\ rank_cache \in Dicts(DataKeys, RankCacheInputs)
    /\ rank_history \in Dicts(DataKeys, RankHistoryInputs)
    /\ rankings = NoRanking
    /\ ScoreIdle
    /\ ScanIdle
    /\ BoardIdle
    /\ CompareIdle
    /\ InstanceIdle
    /\ UnitIdle

\* rank_cities(cache_data, historical_data)
RankCities ==
    /\ rankings = NoRanking
    /\ rankings' = rank_cities(rank_cache, rank_history)
    /\ UNCHANGED <<rank_cache, rank_history>>
    /\ UNCHANGED <<score_vars, scan_vars, board_vars, compare_vars, instance_vars, unit_vars>>

RankNext == RankCities

SpecRank == RankInit /\ [][RankNext]_vars

-----------------------------------------------------------------------------
(* SpecBoard: get_gas_leaderboard applied to bounded arguments.            *)

\* a gas reading as the scanner caches it (lines 309-317), by its value, in
\* units in which every threshold is 100
ValueReading(value) ==
    [value |-> value,
     mean |-> value,
     threshold |-> ColumnThreshold(GasList[1]),
     is_violation |-> value >= ColumnThreshold(GasList[1]),
     percentage_over |-> IF value >= 100 THEN 10 * (value - 100) ELSE 0,
     timestamp |-> PassMs(1)]

\* the reading cached for a failed extraction (lines 343-347)
ErrorReading == [error |-> "No data for city area", is_violation |-> FALSE]

\* the latest_readings a cached document may hold: the second gas read at
\* half its threshold; the first gas not read, failed, or read at 0, 50% or
\* 250% of its threshold
ReadingsInputs ==
    {[g \in {GasList[2]} |-> ValueReading(50)]}
        \cup {[g \in Gases |-> IF g = GasList[2] THEN ValueReading(50) ELSE r] :
                r \in {ErrorReading, ValueReading(0), ValueReading(50),
                       ValueReading(250)}}

\* a cached document as the leaderboard reads it
BoardDocs == {[city |-> "c", latest_readings |-> r] : r \in ReadingsInputs}

\* no call has returned yet
NoBoard == <<[none |-> TRUE]>>

BoardInit ==
    /\ board_cache \in Dicts(Cities, BoardDocs)
    /\ board_gas \in Gases
    /\ leaderboard = NoBoard
    /\ ScoreIdle
    /\ RankIdle
    /\ ScanIdle
    /\ CompareIdle
    /\ InstanceIdle
    /\ UnitIdle

\* get_gas_leaderboard(cache_data, gas)
GasLeaderboard ==
    /\ leaderboard = NoBoard
    /\ leaderboard' = get_gas_leaderboard(board_cache, board_gas)
    /\ UNCHANGED <<board_cache, board_gas>>
    /\ UNCHANGED <<score_vars, rank_vars, scan_vars, compare_vars, instance_vars, unit_vars>>

BoardNext == GasLeaderboard

SpecBoard == BoardInit /\ [][BoardNext]_vars

-----------------------------------------------------------------------------
(* SpecCompare: compare_cities applied to bounded arguments.               *)

\* the cities that may have a cached document and recorded violations
ComparedCities == {CityList[1], CityList[2]}

\* the metrics the scanner caches with the readings (lines 350-364)
MetricsOf(readings) ==
    LET successful ==
            SelectSeq(GasList, LAMBDA g : /\ g \in DOMAIN readings
                                          /\ "value" \in DOMAIN readings[g])
        total == FracSum([i \in DOMAIN successful |->
                            Frac(readings[successful[i]].value * 100,
                                 readings[successful[i]].threshold)])
        avg_threshold_pct ==
            IF successful = <<>> THEN Frac(0, 1)
            ELSE Frac(total.n, total.d * Len(successful))
    IN  [pollution_index |-> Round1(avg_threshold_pct),
         active_violations |->
            Len(SelectSeq(successful, LAMBDA g : readings[g].is_violation)),
         gases_monitored |-> Len(successful),
         data_completeness |-> Round2(Frac(Len(successful), Len(GasList))),
         avg_threshold_percentage |-> Round1(avg_threshold_pct)]

\* a cached document as the comparison reads it (lines 445-453)
CompareDocs ==
    {[city |-> "c", last_updated |-> "t", metrics |-> MetricsOf(r),
      latest_readings |-> r] : r \in ReadingsInputs}

\* no call has returned yet
NoComparison == EmptyDict

CompareInit ==
    /\ cmp_cache \in Dicts(ComparedCities, CompareDocs)
    /\ cmp_history \in Dicts(ComparedCities, RankHistoryInputs)
    /\ cmp_city1 \in Cities
    /\ cmp_city2 \in Cities
    /\ comparison = NoComparison
    /\ mirrored = NoComparison
    /\ ScoreIdle
    /\ RankIdle
    /\ ScanIdle
    /\ BoardIdle
    /\ InstanceIdle
    /\ UnitIdle

\* compare_cities(city1, city2, cache_data, historical_data)
CompareCities ==
    /\ comparison = NoComparison
    /\ comparison' = compare_cities(cmp_city1, cmp_city2, cmp_cache, cmp_history)
    /\ UNCHANGED <<cmp_cache, cmp_history, cmp_city1, cmp_city2, mirrored>>
    /\ UNCHANGED <<score_vars, rank_vars, scan_vars, board_vars, instance_vars, unit_vars>>

\* compare_cities(city2, city1, cache_data, historical_data)
CompareCitiesMirrored ==
    /\ comparison # NoComparison
    /\ mirrored = NoComparison
    /\ mirrored' = compare_cities(cmp_city2, cmp_city1, cmp_cache, cmp_history)
    /\ UNCHANGED <<cmp_cache, cmp_history, cmp_city1, cmp_city2, comparison>>
    /\ UNCHANGED <<score_vars, rank_vars, scan_vars, board_vars, instance_vars, unit_vars>>

CompareNext == CompareCities \/ CompareCitiesMirrored

SpecCompare == CompareInit /\ [][CompareNext]_vars

-----------------------------------------------------------------------------
(* SpecInstance: calculate_city_score called twice on one analyzer         *)
(* instance, load_all_data possibly called in between.                     *)

\* load_all_data calls between the two calls
MaxLoads == 1

\* a city name that the configuration does not hold
UnconfiguredCity == "Atlantis"

\* what _load_cache and _load_historical may find in the stores: nothing, or
\* data for the first city
LoadedCaches == Dicts({CityList[1]}, {d \in CacheInputs : d # EmptyDict})
LoadedHistories == Dicts({CityList[1]}, RankHistoryInputs)

\* the cache_data and historical_violations arguments: None, empty, or data
CacheArguments ==
    {Omitted, Given(EmptyDict),
     Given([last_updated |-> "t",
            metrics |-> [avg_threshold_percentage |-> 400,
                         active_violations |-> 0, data_completeness |-> 80]])}
HistoryArguments ==
    {Omitted, Given(<<>>), Given(<<[severity |-> "critical", percentage_over |-> 1200]>>)}

InstanceInit ==
    /\ self_cache_data \in LoadedCaches
    /\ self_historical_data \in LoadedHistories
    /\ call_args \in [city : {CityList[1], CityList[2], UnconfiguredCity},
                      cache_data : CacheArguments,
                      historical_violations : HistoryArguments]
    /\ first_score = NoScore
    /\ second_score = NoScore
    /\ loads = 0
    /\ ScoreIdle
    /\ RankIdle
    /\ ScanIdle
    /\ BoardIdle
    /\ CompareIdle
    /\ UnitIdle

\* the first calculate_city_score(city, cache_data, historical_violations)
FirstCall ==
    /\ first_score = NoScore
    /\ first_score' = calculate_city_score_method(
                          self_cache_data, self_historical_data, call_args.city,
                          call_args.cache_data, call_args.historical_violations)
    /\ UNCHANGED <<self_cache_data, self_historical_data, call_args, second_score, loads>>
    /\ UNCHANGED <<score_vars, rank_vars, scan_vars, board_vars, compare_vars, unit_vars>>

\* load_all_data(), lines 66-121: the instance takes what the stores hold
LoadAllData(cache, history) ==
    /\ first_score # NoScore /\ second_score = NoScore
    /\ loads < MaxLoads
    /\ loads' = loads + 1
    /\ self_cache_data' = cache
    /\ self_historical_data' = history
    /\ UNCHANGED <<call_args, first_score, second_score>>
    /\ UNCHANGED <<score_vars, rank_vars, scan_vars, board_vars, compare_vars, unit_vars>>

\* the second call, with the arguments of the first
SecondCall ==
    /\ first_score # NoScore /\ second_score = NoScore
    /\ second_score' = calculate_city_score_method(
                           self_cache_data, self_historical_data, call_args.city,
                           call_args.cache_data, call_args.historical_violations)
    /\ UNCHANGED <<self_cache_data, self_historical_data, call_args, first_score, loads>>
    /\ UNCHANGED <<score_vars, rank_vars, scan_vars, board_vars, compare_vars, unit_vars>>

InstanceNext ==
    \/ FirstCall
    \/ \E cache \in LoadedCaches, history \in LoadedHistories :
          LoadAllData(cache, history)
    \/ SecondCall

SpecInstance == InstanceInit /\ [][InstanceNext]_vars

-----------------------------------------------------------------------------
(* Spec: the scanner, the data source and the two stores.                  *)

\* scans in one behaviour
MaxScans == 2

\* satellite passes in one behaviour
MaxPass == 2

\* faults of the environment during one scan
MaxFaults == 1

\* the reduction of an image over one city's bbox: no valid pixel, below the
\* threshold, or 2.5 times the threshold
NoPixel == EmptyDict
BelowThreshold == [mean |-> 40, max |-> 50, min |-> 30]
AboveThreshold == [mean |-> 120, max |-> 250, min |-> 90]

\* a regional image, given by its reduction over each scanned city
Image(first, second) ==
    [c \in ScanCities |-> IF c = ScanCityList[1] THEN first ELSE second]

\* the newest regional image of a gas
ImageInputs ==
    {NoImage,
     Image(AboveThreshold, NoPixel),
     Image(BelowThreshold, AboveThreshold),
     Image(AboveThreshold, AboveThreshold)}

\* a document the user-scan path left in the cache collection: one user scan
PriorDoc(city) ==
    [city |-> city,
     region |-> Region(city),
     last_updated |-> 0,
     latest_readings |-> EmptyDict,
     metrics |-> [pollution_index |-> 0, active_violations |-> 0,
                  gases_monitored |-> 1, data_completeness |-> 50,
                  avg_threshold_percentage |-> 0],
     violations |-> <<>>,
     monitoring_stats |-> [total_scans |-> 1, first_scan_date |-> 0,
                           background_scans |-> 0, user_scans |-> 1]]

\* the cache collection before the first scan: empty, or holding a document
\* for the first city
CacheInputs0 == {EmptyDict, [c \in {ScanCityList[1]} |-> PriorDoc(c)]}

\* scan_all_cities has not returned yet
NoResults == EmptyDict

Init ==
    /\ store_config \in {"firestore", "no_db", "no_recorder"}
    /\ images \in [Gases -> ImageInputs]
    /\ sat_pass = 1
    /\ cache_store \in CacheInputs0
    /\ violation_store = <<>>
    /\ results = NoResults
    /\ clock = 0
    /\ call = EmptyDict
    /\ initial_cache = cache_store
    /\ data_scans = [c \in ScanCities |-> 0]
    /\ failed_writes = [c \in ScanCities |-> 0]
    /\ cache_before = cache_store
    /\ violations_before = violation_store
    /\ ScoreIdle
    /\ RankIdle
    /\ BoardIdle
    /\ CompareIdle
    /\ InstanceIdle
    /\ UnitIdle

\* the cities of a scan's result that have completeness > 0
CitiesWithData(scan_results) ==
    {c \in DOMAIN scan_results.cities :
        scan_results.cities[c].metrics.data_completeness > 0}

\* scan_all_cities(days_back, auto_record_violations), lines 242-377; faults
\* are the calls that fail during this scan
Scan(auto_record_violations, faults) ==
    /\ clock < MaxScans
    /\ clock' = clock + 1
    /\ results' = ScanResults(NowMs(clock'), faults)
    /\ IF "error" \in DOMAIN results'
       THEN UNCHANGED <<violation_store, cache_store>>
       ELSE /\ violation_store' =
                 IF auto_record_violations
                 THEN RecordAll(violation_store, results'.violations,
                                Fault("recorder", "-", "-") \in faults)
                 ELSE violation_store
            /\ cache_store' =
                 save_all_to_cache(cache_store, results', NowMs(clock'), faults)
    /\ data_scans' = [c \in ScanCities |->
                        IF c \in CitiesWithData(results')
                        THEN data_scans[c] + 1 ELSE data_scans[c]]
    /\ failed_writes' = [c \in ScanCities |->
                           IF /\ c \in CitiesWithData(results')
                              /\ Fault("cache", c, "-") \in faults
                           THEN failed_writes[c] + 1 ELSE failed_writes[c]]
    /\ call' = [auto_record_violations |-> auto_record_violations, faults |-> faults]
    /\ cache_before' = cache_store
    /\ violations_before' = violation_store
    /\ UNCHANGED <<store_config, images, sat_pass, initial_cache>>
    /\ UNCHANGED <<score_vars, rank_vars, board_vars, compare_vars, instance_vars, unit_vars>>

\* the satellite passes again: the newest images carry the next pass's time
NewPass ==
    /\ sat_pass < MaxPass
    /\ sat_pass' = sat_pass + 1
    /\ UNCHANGED <<store_config, images, cache_store, violation_store, results,
                   clock, call, initial_cache, data_scans, failed_writes,
                   cache_before, violations_before>>
    /\ UNCHANGED <<score_vars, rank_vars, board_vars, compare_vars, instance_vars, unit_vars>>

\* the sets of at most MaxFaults faults
FaultSets == {F \in SUBSET FaultKinds : Cardinality(F) <= MaxFaults}

Next ==
    \/ \E auto_record_violations \in BOOLEAN, faults \in FaultSets :
          Scan(auto_record_violations, faults)
    \/ NewPass

Spec == Init /\ [][Next]_vars

-----------------------------------------------------------------------------
(* Properties of rank_cities, checked under SpecRank.                      *)

Ranked == rankings # NoRanking

\* C1: rank_cities returns exactly one entry per configured city, whatever
\* the cache and the historical data hold: as many entries as cities, and
\* every city among them.
C1_EveryCityRanked ==
    Ranked =>
        /\ Len(rankings) = Len(CityList)
        /\ \A c \in Cities :
              Cardinality({i \in DOMAIN rankings : rankings[i].city = c}) = 1

C1_Witness ==
    /\ Ranked
    /\ rank_cache = EmptyDict /\ rank_history = EmptyDict
    /\ Len(rankings) = Len(CityList)
    /\ \A i \in DOMAIN rankings : rankings[i].pollution_index = 500

\* the place of a city in the configured order
Position(city) == CHOOSE i \in DOMAIN CityList : CityList[i] = city

WithRank(r) == {i \in DOMAIN rankings : rankings[i].rank = r}

\* C30: the rank numbers of rank_cities() are exactly 1..N, N the number of
\* configured cities, each carried by one entry, and pollution_index does
\* not decrease as the rank number grows.
C30_RanksDenseAndAscending ==
    Ranked =>
        /\ \A r \in 1..Len(CityList) : Cardinality(WithRank(r)) = 1
        /\ \A i \in DOMAIN rankings : rankings[i].rank \in 1..Len(CityList)
        /\ \A i, j \in DOMAIN rankings :
              rankings[i].rank < rankings[j].rank
                  => rankings[i].pollution_index <= rankings[j].pollution_index

\* two cities share the lowest pollution_index and take the ranks 1 and 2;
\* the third is more polluted
C30_Witness ==
    /\ Ranked
    /\ \E i, j, k \in DOMAIN rankings :
          /\ rankings[i].rank = 1 /\ rankings[j].rank = 2 /\ rankings[k].rank = 3
          /\ rankings[i].pollution_index = rankings[j].pollution_index
          /\ rankings[j].pollution_index < rankings[k].pollution_index

-----------------------------------------------------------------------------
(* Properties of get_gas_leaderboard, checked under SpecBoard.             *)

Boarded == leaderboard # NoBoard

\* the cache holds a reading with a value for the city and the gas asked for
HasReading(city) ==
    /\ city \in DOMAIN board_cache
    /\ board_gas \in DOMAIN board_cache[city].latest_readings
    /\ "value" \in DOMAIN board_cache[city].latest_readings[board_gas]

\* C15: in the leaderboard every city without cached reading for the gas
\* stands behind every city that has one, whatever the readings' values
\* are; the list holds each configured city once.
C15_NoReadingLast ==
    Boarded =>
        /\ \A c \in Cities :
              Cardinality({i \in DOMAIN leaderboard : leaderboard[i].city = c}) = 1
        /\ \A i, j \in DOMAIN leaderboard :
              (~HasReading(leaderboard[i].city) /\ HasReading(leaderboard[j].city))
                  => j < i

\* the first configured city has no reading and stands behind a city read at
\* 250% of the threshold
C15_Witness ==
    /\ Boarded
    /\ HasReading(leaderboard[1].city)
    /\ leaderboard[1].threshold_percent = 2500
    /\ leaderboard[2].city = CityList[1]
    /\ ~HasReading(CityList[1])
    /\ leaderboard[2].threshold_percent = 0

\* C16 as stated: a city without cached reading for the gas has no rank
\* number (its rank is null), and the cities with a reading have one.
C16_NoRankWithoutReading ==
    Boarded =>
        \A i \in DOMAIN leaderboard :
            "rank" \in DOMAIN leaderboard[i] <=> HasReading(leaderboard[i].city)

-----------------------------------------------------------------------------
(* Properties of calculate_city_score, checked under SpecScore.            *)

\* the historical_violations list of the last call
LastViolations == IF change = "scored" THEN violations_arg ELSE changed_arg

Called == change # "none"

\* number of records of L with severity critical / any other severity
NumCritical(L) == Cardinality({i \in DOMAIN L : Get(L[i], "severity", "") = "critical"})
NumModerate(L) == Len(L) - NumCritical(L)

\* number of records of L with a positive percentage_over, and their sum
NumPositive(L) == Cardinality({i \in DOMAIN L : PercentageOver(L[i]) > 0})
SumPositive(L) == SumSeq([i \in DOMAIN L |-> PercentageOver(L[i])])

\* C2 as stated: a city with data_quality 0 and no violations scores exactly
\* 50 and is in category "moderate".
C2_NeutralIsModerate ==
    (Called /\ score.data_quality = 0 /\ LastViolations = <<>>)
        => (score.pollution_index = 500 /\ score.category = "moderate")

\* C2 amended: a city with data_quality 0 and no violations scores exactly
\* 50, and 50 lies in the bucket [30, 60), category "clean".
C2_NeutralIsClean ==
    (Called /\ score.data_quality = 0 /\ LastViolations = <<>>)
        => (score.pollution_index = 500 /\ score.category = "clean")

C2_Witness ==
    /\ Called /\ LastViolations = <<>>
    /\ cache_arg # EmptyDict /\ score.data_quality = 0
    /\ score.pollution_index = 500

\* C3: the composite is 0.7*live + 0.3*historical when data_quality > 0.3,
\* historical + 30 when data_quality <= 0.3 and there are violations, and 50
\* otherwise; data_quality 1.0, live 0 and no violations gives 0, "cleanest".
C3_CompositeRule ==
    Called =>
        LET h == score.historical_exact
            live == score.live_score
            c == score.composite
        IN  /\ score.data_quality > 30
                => FracEq(c, Frac(7 * live * h.d + 30 * h.n, 100 * h.d))
            /\ (score.data_quality <= 30 /\ LastViolations # <<>>)
                => FracEq(c, Frac(h.n + 30 * h.d, h.d))
            /\ (score.data_quality <= 30 /\ LastViolations = <<>>)
                => FracEq(c, Frac(50, 1))
            /\ score.pollution_index = Round1(c)
            /\ (score.data_quality = 100 /\ live = 0 /\ LastViolations = <<>>)
                => (score.pollution_index = 0 /\ score.category = "cleanest")

C3_Witness ==
    /\ Called /\ score.data_quality = 100 /\ score.live_score = 0
    /\ LastViolations = <<>> /\ score.pollution_index = 0

\* the scenario of C4: exceedances 50, 80, 120 on 2 moderate + 1 critical
\* violations, live 40, completeness 0.8
C4_Scenario ==
    /\ Called
    /\ Len(LastViolations) = 3
    /\ {LastViolations[i] : i \in DOMAIN LastViolations} =
         {[severity |-> "moderate", percentage_over |-> 500],
          [severity |-> "moderate", percentage_over |-> 800],
          [severity |-> "critical", percentage_over |-> 1200]}
    /\ score.live_score = 400 /\ score.data_quality = 80

\* C4: for a non-empty list historical_score is
\* min((moderate + 1.5*critical)*3 + 0.2*mean(positive percentage_over), 50),
\* hence at most 50; the scenario gives composite 36.15, category "clean".
C4_HistoricalScore ==
    /\ (Called /\ LastViolations # <<>>) =>
          LET L == LastViolations
              h == score.historical_exact
              k == IF NumPositive(L) = 0 THEN 1 ELSE NumPositive(L)
              uncapped == 25 * k * (6 * NumModerate(L) + 9 * NumCritical(L))
                            + SumPositive(L)
          IN  /\ FracEq(h, Frac(IF uncapped <= 2500 * k THEN uncapped ELSE 2500 * k,
                                 50 * k))
              /\ FracLeq(h, Frac(50, 1))
    /\ C4_Scenario =>
          /\ FracEq(score.composite, Frac(3615, 100))
          /\ score.category = "clean"

C4_Witness == C4_Scenario /\ FracEq(score.composite, Frac(3615, 100))

\* the record the second call added
AddedRecord == changed_arg[Len(changed_arg)]

\* C5 as stated: one more violation record never lowers historical_score.
C5_MonotoneInCount ==
    change = "added"
        => FracLeq(ref_score.historical_exact, score.historical_exact)

\* C5 amended: one more violation record v never lowers historical_score when
\* v's percentage_over is zero or missing, or is at least the mean of the
\* positive percentage_over values already in the list.
C5_MonotoneInCountAmended ==
    (/\ change = "added"
     /\ \/ PercentageOver(AddedRecord) = 0
        \/ PercentageOver(AddedRecord) * NumPositive(violations_arg)
             >= SumPositive(violations_arg))
        => FracLeq(ref_score.historical_exact, score.historical_exact)

C5_Witness ==
    /\ change = "added"
    /\ violations_arg # <<>>
    /\ PercentageOver(AddedRecord) > 0
    /\ PercentageOver(AddedRecord) * NumPositive(violations_arg)
         >= SumPositive(violations_arg)
    /\ FracLess(ref_score.historical_exact, score.historical_exact)

\* the record whose percentage_over the second call raised
RaisedIndex == CHOOSE i \in DOMAIN violations_arg : changed_arg[i] # violations_arg[i]

\* C6 as stated: raising one record's percentage_over, from zero or missing
\* included, never lowers historical_score.
C6_MonotoneInExceedance ==
    change = "raised"
        => FracLeq(ref_score.historical_exact, score.historical_exact)

\* C6 amended: raising one record's percentage_over never lowers
\* historical_score when the record's percentage_over was already positive,
\* or when the new value is at least the mean of the positive percentage_over
\* values of the list.
C6_MonotoneInExceedanceAmended ==
    (/\ change = "raised"
     /\ \/ PercentageOver(violations_arg[RaisedIndex]) > 0
        \/ PercentageOver(changed_arg[RaisedIndex]) * NumPositive(violations_arg)
             >= SumPositive(violations_arg))
        => FracLeq(ref_score.historical_exact, score.historical_exact)

C6_Witness ==
    /\ change = "raised"
    /\ PercentageOver(violations_arg[RaisedIndex]) > 0
    /\ FracLess(ref_score.historical_exact, score.historical_exact)

-----------------------------------------------------------------------------
(* Properties of scan_all_cities and the two stores, checked under Spec.   *)

\* the deduplication key of a violation record
Triple(r) == <<r.city, r.gas, r.timestamp_ksa>>

\* the records of the store that carry the key of violation v
Stored(store, v) == {i \in DOMAIN store : Triple(store[i]) = Triple(v)}

\* the last scan fetched at least one gas image
Scanned == clock > 0 /\ "error" \notin DOMAIN results

\* the last scan was asked to record violations and its recorder answered
Recording ==
    /\ clock > 0
    /\ call.auto_record_violations
    /\ store_config # "no_recorder"
    /\ Fault("recorder", "-", "-") \notin call.faults

\* the violations of the last scan whose key the store did not hold before it
NewlyDetected ==
    {k \in DOMAIN results.violations :
        Stored(violations_before, results.violations[k]) = {}}

\* C7: the Violation Store never holds two records with the same (city, gas,
\* timestamp) triple; after a recording scan every violation it detected has
\* exactly one record, and the scan inserted one record per triple the store
\* did not hold yet and none for a triple already stored.
C7_Deduplication ==
    /\ \A i, j \in DOMAIN violation_store :
          Triple(violation_store[i]) = Triple(violation_store[j]) => i = j
    /\ (Scanned /\ Recording) =>
          /\ \A k \in DOMAIN results.violations :
                Cardinality(Stored(violation_store, results.violations[k])) = 1
          /\ Len(violation_store) =
                Len(violations_before) + Cardinality(NewlyDetected)

\* a second recording scan of the same pass detects only stored triples and
\* leaves the store as it found it
C7_Witness ==
    /\ clock = 2 /\ sat_pass = 1
    /\ Scanned /\ Recording
    /\ results.violations # <<>>
    /\ NewlyDetected = {}
    /\ violation_store = violations_before
    /\ Len(violation_store) = Len(results.violations)

\* C8: every document of the cache collection has
\* total_scans = background_scans + user_scans, whether the scan created it
\* or wrote over a document that was there.
C8_CountersAddUp ==
    \A c \in DOMAIN cache_store :
        LET stats == cache_store[c].monitoring_stats
        IN  stats.total_scans = stats.background_scans + stats.user_scans

\* two scans wrote over a document that held one user scan
C8_Witness ==
    \E c \in DOMAIN initial_cache :
        /\ clock = 2
        /\ initial_cache[c].monitoring_stats.user_scans = 1
        /\ cache_store[c].monitoring_stats.background_scans = 2
        /\ cache_store[c].monitoring_stats.total_scans = 3

\* a counter of the city's document as the last scan found it; 0 when there
\* was no document
Previous(c, counter) ==
    IF c \in DOMAIN cache_before
    THEN Get(Get(cache_before[c], "monitoring_stats", EmptyDict), counter, 0)
    ELSE 0

\* the city's document holds the last scan's snapshot and counters one above
\* those the scan found
Overwritten(c) ==
    /\ c \in DOMAIN cache_store
    /\ cache_store[c].latest_readings = results.cities[c].readings
    /\ cache_store[c].metrics = results.cities[c].metrics
    /\ cache_store[c].violations = results.cities[c].violations
    /\ cache_store[c].monitoring_stats.background_scans
          = Previous(c, "background_scans") + 1
    /\ cache_store[c].monitoring_stats.total_scans
          = Previous(c, "total_scans") + 1

Available(g) ==
    images[g] # NoImage /\ Fault("fetch", "-", g) \notin call.faults

\* C11: a scan in which every configured gas is unavailable returns the
\* error 'No satellite data available' with no city entry, and leaves the
\* Cache Store and the Violation Store as it found them.
C11_NoDataNoWrite ==
    (clock > 0 /\ \A g \in Gases : ~Available(g)) =>
        /\ "error" \in DOMAIN results
        /\ results.error = "No satellite data available"
        /\ results.cities = EmptyDict
        /\ results.violations = <<>>
        /\ cache_store = cache_before
        /\ violation_store = violations_before

\* a recording scan without any gas, made by a scanner whose stores already
\* hold documents and records
C11_Witness ==
    /\ clock > 0 /\ \A g \in Gases : ~Available(g)
    /\ call.auto_record_violations /\ EnsureDb /\ store_config # "no_recorder"
    /\ "error" \in DOMAIN results
    /\ cache_store # EmptyDict /\ cache_store = cache_before
    /\ violation_store # <<>> /\ violation_store = violations_before

\* reduceRegion returned a value for the city in the gas's image
HasPixels(g, c) ==
    "mean" \in DOMAIN images[g][c] \/ "max" \in DOMAIN images[g][c]

\* the last scan's extraction for the city and the gas succeeded
Extracted(g, c) ==
    /\ Available(g)
    /\ Fault("extract", c, g) \notin call.faults
    /\ HasPixels(g, c)

\* C12: when at least one gas fetch succeeds the scan completes whatever
\* else fails: the result has no error and one entry per scanned city, every
\* city and gas whose extraction succeeded has a reading with the extracted
\* value, and every fetched gas whose extraction failed has an error reading.
C12_FailuresIsolated ==
    (clock > 0 /\ \E g \in Gases : Available(g)) =>
        /\ "error" \notin DOMAIN results
        /\ DOMAIN results.cities = ScanCities
        /\ \A c \in ScanCities, g \in Gases :
              /\ Extracted(g, c) =>
                    /\ g \in DOMAIN results.cities[c].readings
                    /\ "error" \notin DOMAIN results.cities[c].readings[g]
                    /\ results.cities[c].readings[g].value
                          = Clamp(images[g][c], "max")
              /\ (Available(g) /\ ~Extracted(g, c)) =>
                    /\ g \in DOMAIN results.cities[c].readings
                    /\ "error" \in DOMAIN results.cities[c].readings[g]

\* one gas fetch failed, and the other gas was read for both cities
C12_FetchWitness ==
    /\ clock > 0
    /\ \E g \in Gases :
          /\ Fault("fetch", "-", g) \in call.faults /\ images[g] # NoImage
          /\ \E h \in Gases \ {g} : \A c \in ScanCities : Extracted(h, c)
    /\ "error" \notin DOMAIN results
    /\ \A c \in ScanCities : results.cities[c].metrics.gases_monitored = 1

\* one extraction raised, and the same gas was read for the other city
C12_Witness ==
    /\ clock > 0
    /\ \E g \in Gases, c \in ScanCities :
          /\ Fault("extract", c, g) \in call.faults /\ Available(g)
          /\ "error" \in DOMAIN results.cities[c].readings[g]
          /\ \E d \in ScanCities \ {c} :
                /\ Extracted(g, d)
                /\ "error" \notin DOMAIN results.cities[d].readings[g]

\* the last scan read no gas for the city
WithoutData(c) == results.cities[c].metrics.data_completeness = 0

\* C26: a scan leaves untouched the document of every city whose data
\* completeness in that scan is 0: the city has a document after the scan
\* exactly if it had one before, and that document, snapshot and monitoring
\* counters, is the one the scan found.
C26_NoDataCityUntouched ==
    Scanned =>
        \A c \in ScanCities :
            WithoutData(c) =>
                /\ c \in DOMAIN cache_store <=> c \in DOMAIN cache_before
                /\ c \in DOMAIN cache_before => cache_store[c] = cache_before[c]

\* a scan that wrote the other city's document read nothing for a city
\* whose document an earlier scan had written
C26_Witness ==
    /\ Scanned /\ EnsureDb /\ clock = 2
    /\ \E c \in ScanCities, d \in ScanCities :
          /\ d # c
          /\ WithoutData(c)
          /\ c \in DOMAIN cache_before
          /\ cache_before[c].monitoring_stats.background_scans = 1
          /\ cache_store[c] = cache_before[c]
          /\ d \in DOMAIN cache_store
          /\ cache_store[d].last_updated = NowMs(clock)

\* C27: a city's first_scan_date is set by the first write of its document
\* and never changes afterwards, no scan changes its user_scans counter, and
\* no document is removed.
C27_FirstDateAndUserScansKept ==
    [][\A c \in DOMAIN cache_store :
          /\ c \in DOMAIN cache_store'
          /\ cache_store'[c].monitoring_stats.first_scan_date
                = cache_store[c].monitoring_stats.first_scan_date
          /\ cache_store'[c].monitoring_stats.user_scans
                = cache_store[c].monitoring_stats.user_scans]_vars

\* two scans on different days wrote a document that was not there before
\* the first: it carries the first scan's date
C27_Witness ==
    \E c \in ScanCities :
        /\ clock = 2
        /\ c \notin DOMAIN initial_cache
        /\ c \in DOMAIN cache_before
        /\ cache_store[c].last_updated = NowMs(2)
        /\ cache_store[c].monitoring_stats.background_scans = 2
        /\ cache_store[c].monitoring_stats.first_scan_date = DateOf(NowMs(1))
        /\ DateOf(NowMs(2)) # DateOf(NowMs(1))

\* the recorder's calls raised during the last scan, which was asked to
\* record violations
RecorderRaised ==
    /\ clock > 0
    /\ call.auto_record_violations
    /\ store_config # "no_recorder"
    /\ Fault("recorder", "-", "-") \in call.faults

\* the violation the scan detects for a city and a gas is in the scan's
\* violation list and in the city's
Reported(c, g) ==
    /\ \E k \in DOMAIN results.violations :
          /\ results.violations[k].city = c
          /\ results.violations[k].gas = g
    /\ \E k \in DOMAIN results.cities[c].violations :
          results.cities[c].violations[k].gas = g

\* C29: a recorder whose existence check or insert raises does not abort the
\* scan: the result has no error and an entry for every scanned city, every
\* extracted value at or above the threshold is a violation of the result
\* and of its city, and the document of every city with data is written
\* (where the scanner has a Cache Store client and the write does not raise).
C29_RecorderFailureIsolated ==
    (RecorderRaised /\ \E g \in Gases : Available(g)) =>
        /\ "error" \notin DOMAIN results
        /\ DOMAIN results.cities = ScanCities
        /\ \A c \in ScanCities, g \in Gases :
              (Extracted(g, c) /\ Clamp(images[g][c], "max") >= ColumnThreshold(g))
                  => Reported(c, g)
        /\ EnsureDb =>
              \A c \in CitiesWithData(results) :
                  Fault("cache", c, "-") \notin call.faults => Overwritten(c)

\* the recorder raised for the first city's violation; the second city's
\* violation of the other gas is reported too, both documents are written
\* and the Violation Store is as the scan found it
C29_Witness ==
    /\ RecorderRaised /\ EnsureDb
    /\ \E g \in Gases, h \in Gases :
          /\ h # g
          /\ Extracted(g, ScanCityList[1]) /\ Reported(ScanCityList[1], g)
          /\ Extracted(h, ScanCityList[2]) /\ Reported(ScanCityList[2], h)
    /\ \A c \in ScanCities : Overwritten(c) /\ cache_store[c].last_updated = NowMs(clock)
    /\ violation_store = violations_before

-----------------------------------------------------------------------------
(* Properties of compare_cities, checked under SpecCompare.                *)

Compared == comparison # NoComparison

Mirrored == mirrored # NoComparison

\* the two scores the comparison reports, in tenths
ScoreA == comparison.city1.pollution_index
ScoreB == comparison.city2.pollution_index

\* the city the comparison has to name: the one with the lower score
LowerScored ==
    IF ScoreA < ScoreB THEN cmp_city1
    ELSE IF ScoreB < ScoreA THEN cmp_city2
    ELSE "equal"

\* |score_a - score_b| / max(score_a, score_b) * 100; 0 for equal scores and
\* 100 for different scores over a denominator of 0
DifferenceFormula ==
    IF ScoreA = ScoreB THEN Frac(0, 1)
    ELSE IF Max(ScoreA, ScoreB) = 0 THEN Frac(100, 1)
    ELSE Frac(Abs(ScoreA - ScoreB) * 100, Max(ScoreA, ScoreB))

\* C17 as stated: overall_cleaner is the city with the strictly lower score,
\* or 'equal', and difference_percent is exactly
\* |score_a - score_b| / max(score_a, score_b) * 100.
C17_OverallComparison ==
    Compared =>
        /\ comparison.overall_cleaner = LowerScored
        /\ FracEq(Frac(comparison.difference_percent, 10), DifferenceFormula)

\* C17 amended: overall_cleaner is the city with the strictly lower score,
\* or 'equal', and difference_percent is
\* |score_a - score_b| / max(score_a, score_b) * 100 rounded to one decimal.
C17_OverallComparisonAmended ==
    Compared =>
        /\ comparison.overall_cleaner = LowerScored
        /\ comparison.difference_percent = Round1(DifferenceFormula)
        /\ ScoreA = ScoreB => comparison.difference_percent = 0

\* two different cities with the same score, and so 'equal' and 0
C17_Witness ==
    /\ Compared
    /\ cmp_city1 # cmp_city2
    /\ ScoreA = ScoreB
    /\ comparison.overall_cleaner = "equal"
    /\ comparison.difference_percent = 0

\* the second city is the cleaner one, by a difference that is rounded
C17_RoundedWitness ==
    /\ Compared
    /\ ScoreB < ScoreA
    /\ comparison.overall_cleaner = cmp_city2
    /\ ~FracEq(Frac(comparison.difference_percent, 10), DifferenceFormula)

\* C18: compare_cities(a, b) and compare_cities(b, a) report the same
\* overall_cleaner and difference_percent, each other's city1 and city2, and
\* for every gas the same cleaner_city with the two percentages swapped.
C18_Symmetric ==
    Mirrored =>
        /\ mirrored.overall_cleaner = comparison.overall_cleaner
        /\ mirrored.difference_percent = comparison.difference_percent
        /\ mirrored.city1 = comparison.city2
        /\ mirrored.city2 = comparison.city1
        /\ \A g \in Gases :
              /\ mirrored.gas_comparisons[g].cleaner_city
                    = comparison.gas_comparisons[g].cleaner_city
              /\ mirrored.gas_comparisons[g].city1_percent
                    = comparison.gas_comparisons[g].city2_percent
              /\ mirrored.gas_comparisons[g].city2_percent
                    = comparison.gas_comparisons[g].city1_percent

\* both orders made for two cities that differ overall and in a gas
C18_Witness ==
    /\ Mirrored
    /\ cmp_city1 # cmp_city2
    /\ comparison.overall_cleaner = cmp_city1
    /\ mirrored.overall_cleaner = cmp_city1
    /\ comparison.difference_percent > 0
    /\ \E g \in Gases :
          /\ comparison.gas_comparisons[g].cleaner_city = cmp_city2
          /\ comparison.gas_comparisons[g].city1_percent
                > comparison.gas_comparisons[g].city2_percent

\* the cache holds no reading with a value for the city and the gas
NoReading(city, g) ==
    "value" \notin DOMAIN Get(Get(Get(cmp_cache, city, EmptyDict),
                                  "latest_readings", EmptyDict), g, EmptyDict)

\* the cache with the city's reading of the gas set to a reading of value 0
WithZeroReading(cache, city, g) ==
    LET doc == Get(cache, city, EmptyDict)
        readings == Get(doc, "latest_readings", EmptyDict)
    IN  With(cache, city,
             With(doc, "latest_readings", With(readings, g, ValueReading(0))))

\* C19 as stated: for two different cities, a first city without cached
\* reading for a gas gets a per-gas entry that differs from the entry it
\* gets with a cached reading of value 0, and is not named the cleaner city
\* for that gas.
C19_AbsenceDistinguishable ==
    (Compared /\ cmp_city1 # cmp_city2) =>
        \A g \in Gases :
            NoReading(cmp_city1, g) =>
                /\ comparison.gas_comparisons[g].cleaner_city # cmp_city1
                /\ compare_cities(cmp_city1, cmp_city2,
                                  WithZeroReading(cmp_cache, cmp_city1, g),
                                  cmp_history).gas_comparisons[g]
                      # comparison.gas_comparisons[g]

-----------------------------------------------------------------------------
(* Properties of calculate_city_score as a method, checked under           *)
(* SpecInstance.                                                           *)

CalledTwice == second_score # NoScore

C22_UnknownCityReported ==
    (first_score # NoScore /\ call_args.city \notin Cities) =>
        "error" \in DOMAIN first_score

-----------------------------------------------------------------------------
(* SpecCategory: the category loop of calculate_city_score applied to      *)
(* composite scores.                                                       *)

\* the largest composite score looked up, in points
MaxComposite == 130

\* the composite scores looked up: every tenth of a point from 0 on
CompositeInputs == {Frac(n, 10) : n \in 0..(MaxComposite * 10)}

\* no category has been looked up yet
NoCategory == "none"

CategoryInit ==
    /\ cat_composite \in CompositeInputs
    /\ cat_result = NoCategory
    /\ RestIdle
    /\ StaleIdle
    /\ FetchIdle
    /\ ExtractIdle
    /\ InterleaveIdle

\* lines 199-204 for the composite score
Categorize ==
    /\ cat_result = NoCategory
    /\ cat_result' = Category(cat_composite)
    /\ UNCHANGED cat_composite
    /\ UNCHANGED <<rest_vars, stale_vars, fetch_vars, extract_vars, interleave_vars>>

CategoryNext == Categorize

SpecCategory == CategoryInit /\ [][CategoryNext]_vars

Categorized == cat_result # NoCategory

\* the composite score lies below the number of points
Below(points) == FracLess(cat_composite, Frac(points, 1))

\* C23: the category of a composite score c >= 0 is cleanest if c < 30,
\* clean if 30 <= c < 60, moderate if 60 <= c < 90, polluted if
\* 90 <= c < 120 and heavily_polluted if c >= 120; the scores 30, 60, 90 and
\* 120 fall in the upper category.
C23_HalfOpenBuckets ==
    Categorized =>
        /\ cat_result = "cleanest" <=> Below(30)
        /\ cat_result = "clean" <=> ~Below(30) /\ Below(60)
        /\ cat_result = "moderate" <=> ~Below(60) /\ Below(90)
        /\ cat_result = "polluted" <=> ~Below(90) /\ Below(120)
        /\ cat_result = "heavily_polluted" <=> ~Below(120)

\* a score on a boundary: 90 points are polluted
C23_Witness ==
    /\ Categorized
    /\ cat_composite = Frac(90, 1)
    /\ cat_result = "polluted"

-----------------------------------------------------------------------------
(* SpecExtract: extract_city_stats applied to one reduction.               *)

\* column values, in hundredths of the configured threshold: below zero
\* (retrieval noise), zero, half the threshold, the threshold, above it
ColumnValues == {-20, 0, 50, 100, 250}

\* what reduceRegion returns for a city: no valid pixel, the three
\* statistics of the pixels, or the maximum or the mean alone
StatsInputs ==
    {NoPixel}
    \cup {[min |-> a, mean |-> b, max |-> c] :
            a \in ColumnValues, b \in ColumnValues, c \in ColumnValues}
    \cup {[max |-> c] : c \in ColumnValues}
    \cup {[mean |-> b] : b \in ColumnValues}

\* the column_threshold of line 223: the configured one, or the default 0
\* of a gas that config.GAS_THRESHOLDS gives none
ThresholdInputs(gas) == {ColumnThreshold(gas), 0}

\* extract_city_stats has not returned yet
NoStats == EmptyDict

ExtractInit ==
    /\ ex_stats \in {s \in StatsInputs :
                        DOMAIN s = {"min", "mean", "max"}
                            => s.min <= s.mean /\ s.mean <= s.max}
    /\ ex_gas \in Gases
    /\ ex_city \in ScanCities
    /\ ex_threshold \in ThresholdInputs(ex_gas)
    /\ ex_result = NoStats
    /\ RestIdle
    /\ StaleIdle
    /\ CategoryIdle
    /\ FetchIdle
    /\ InterleaveIdle

\* extract_city_stats(image, gas, city), lines 172-240
Extract ==
    /\ ex_result = NoStats
    /\ ex_result' = extract_city_stats_for([c \in {ex_city} |-> ex_stats],
                                           ex_gas, ex_city, FALSE, ex_threshold)
    /\ UNCHANGED <<ex_stats, ex_gas, ex_city, ex_threshold>>
    /\ UNCHANGED <<rest_vars, stale_vars, category_vars, fetch_vars, interleave_vars>>

ExtractNext == Extract

SpecExtract == ExtractInit /\ [][ExtractNext]_vars

\* the extraction returned a reading
ExtractedStats == ex_result # NoStats /\ ex_result.success

\* the statistic as the claim has it: zero in place of a negative or
\* missing value
Clamped(k) ==
    IF k \in DOMAIN ex_stats /\ ex_stats[k] > 0 THEN ex_stats[k] ELSE 0

\* C25: in every successful extraction the max, mean and min values
\* returned are the reduced values with zero in place of a negative one;
\* is_violation is true exactly when column_threshold > 0 and the clamped
\* max value >= column_threshold; with a threshold of 0 or less no violation
\* is reported and percentage_over is 0.
C25_ClampedThresholdRule ==
    ExtractedStats =>
        /\ ex_result.value = Clamped("max")
        /\ ex_result.mean = Clamped("mean")
        /\ ex_result.min = Clamped("min")
        /\ ex_result.threshold = ex_threshold
        /\ ex_result.is_violation
              <=> (ex_threshold > 0 /\ Clamped("max") >= ex_threshold)
        /\ ex_threshold <= 0 =>
              ~ex_result.is_violation /\ ex_result.percentage_over = 0

\* a negative minimum is returned as 0, and a maximum equal to the
\* threshold is a violation that is 0 percent over
C25_Witness ==
    /\ ExtractedStats
    /\ DOMAIN ex_stats = {"min", "mean", "max"}
    /\ ex_stats.min < 0 /\ ex_result.min = 0
    /\ ex_threshold > 0 /\ ex_stats.max = ex_threshold
    /\ ex_result.is_violation
    /\ ex_result.percentage_over = 0

\* a gas without configured threshold: a high value is no violation
C25_ZeroThresholdWitness ==
    /\ ExtractedStats
    /\ ex_threshold = 0
    /\ ex_result.value = 250
    /\ ~ex_result.is_violation
    /\ ex_result.percentage_over = 0

-----------------------------------------------------------------------------
(* SpecStale: get_stale_cities applied to a cache collection.              *)

\* a last_updated value: the ISO text of an instant, with or without UTC
\* offset, or any other text
Iso(ms, aware) == [iso |-> ms, aware |-> aware]
Text(s) == [text |-> s]

\* lines 475-483: hours_ago for a last_updated value; the result has no
\* hours entry (None) when the value is empty, does not parse, or carries no
\* offset, so that subtracting it from the zone-aware now raises
HoursAgo(last_updated, now) ==
    IF "iso" \in DOMAIN last_updated /\ last_updated.aware
    THEN [hours |-> Frac(now - last_updated.iso, 3600000)]
    ELSE EmptyDict

\* get_cache_status(), lines 460-504, on the collection's content
get_cache_status(db, store, now, raises) ==
    IF ~db THEN EmptyDict
    ELSE [city \in ScanCities |->
            IF city \in raises
            THEN [has_cache |-> FALSE, error |-> "exception"]
            ELSE IF city \in DOMAIN store
            THEN LET data == store[city]
                     last_updated == Get(data, "last_updated", Text(""))
                     hours_ago == HoursAgo(last_updated, now)
                 IN  [has_cache |-> TRUE,
                      last_updated |-> last_updated,
                      metrics |-> Get(data, "metrics", EmptyDict),
                      violations |-> Len(Get(data, "violations", <<>>))]
                     @@ (IF "hours" \in DOMAIN hours_ago
                         THEN [hours_ago |-> hours_ago.hours]
                         ELSE EmptyDict)
            ELSE [has_cache |-> FALSE]]

\* get_stale_cities(max_age_hours), lines 506-517, given the status dict
StaleOf(status, max_age_hours) ==
    SelectSeq(ScanCityList,
              LAMBDA city :
                  /\ city \in DOMAIN status
                  /\ \/ ~status[city].has_cache
                     \/ /\ "hours_ago" \in DOMAIN status[city]
                        /\ FracLess(Frac(max_age_hours, 1), status[city].hours_ago))

\* get_stale_cities(max_age_hours)
get_stale_cities(db, store, now, raises, max_age_hours) ==
    StaleOf(get_cache_status(db, store, now, raises), max_age_hours)

\* the wall clock of the query: after three scan intervals
StaleNow == NowMs(3)

\* a document of the cache collection with the last_updated value
DocUpdated(last_updated) ==
    [last_updated |-> last_updated, metrics |-> EmptyDict, violations |-> <<>>]

\* documents written now, or one, two or three scan intervals ago; documents
\* whose last_updated has no offset, is empty, is no date, or is missing
StaleDocs ==
    {DocUpdated(Iso(NowMs(k), TRUE)) : k \in 0..3}
    \cup {DocUpdated(Iso(NowMs(0), FALSE)),
          DocUpdated(Text("")),
          DocUpdated(Text("yesterday")),
          [metrics |-> EmptyDict, violations |-> <<>>]}

\* the max_age_hours argument: the default of 24 hours, or 12
MaxAgeInputs == {12, 24}

\* get_stale_cities has not returned yet
NoStale == <<"none">>

StaleInit ==
    /\ st_db \in BOOLEAN
    /\ st_store \in Dicts(ScanCities, StaleDocs)
    /\ st_now = StaleNow
    /\ st_max_age \in MaxAgeInputs
    /\ st_raises \in SUBSET ScanCities
    /\ st_result = NoStale
    /\ RestIdle
    /\ CategoryIdle
    /\ FetchIdle
    /\ ExtractIdle
    /\ InterleaveIdle

\* get_stale_cities(max_age_hours): a read of the collection
GetStaleCities ==
    /\ st_result = NoStale
    /\ st_result' = get_stale_cities(st_db, st_store, st_now, st_raises, st_max_age)
    /\ UNCHANGED <<st_db, st_store, st_now, st_max_age, st_raises>>
    /\ UNCHANGED <<rest_vars, category_vars, fetch_vars, extract_vars, interleave_vars>>

StaleNext == GetStaleCities

SpecStale == StaleInit /\ [][StaleNext]_vars

AskedStale == st_result # NoStale

\* the city's document carries an instant more than max_age_hours before now
TooOld(city) ==
    /\ city \in DOMAIN st_store
    /\ "last_updated" \in DOMAIN st_store[city]
    /\ "iso" \in DOMAIN st_store[city].last_updated
    /\ st_now - st_store[city].last_updated.iso > st_max_age * 3600000

\* C21: get_stale_cities(max_age_hours) returns exactly the configured
\* cities that have no document or whose document is older than
\* max_age_hours, whether or not the store can be reached and whatever the
\* document's last_updated is.
C21_StaleExactly ==
    AskedStale =>
        {st_result[i] : i \in DOMAIN st_result}
            = {city \in ScanCities : city \notin DOMAIN st_store \/ TooOld(city)}

-----------------------------------------------------------------------------
(* SpecFetch: the gas loop of scan_all_cities with fetch_regional_gas_data  *)
(* taken query by query.                                                    *)
(*                                                                          *)
(* A collection is the list of a gas's regional images, newest first; an    *)
(* image has its age in days and whether its validation (lines 144-156)     *)
(* finds data.                                                              *)

\* the default of scan_all_cities' days_back argument
DaysBack == 7

\* the images of a collection within the last days
InWindow(collection, days) == SelectSeq(collection, LAMBDA im : im.age < days)

\* lines 138-166: the newest of the first ten images that validates, or None
FirstValid(found) ==
    LET checked == SubSeq(found, 1, IF Len(found) < 10 THEN Len(found) ELSE 10)
        valid == SelectSeq(checked, LAMBDA im : im.valid)
    IN  IF valid = <<>> THEN NoImage ELSE valid[1]

\* fetch_regional_gas_data that asks for the days_back window only
RegionalFetch_NoRetry(gas, days_back, ee_initialized, collection, raises) ==
    IF ~ee_initialized \/ gas \notin Gases
    THEN [image |-> NoImage, queried |-> <<>>]
    ELSE IF raises
    THEN [image |-> NoImage, queried |-> <<days_back>>]
    ELSE [image |-> FirstValid(InWindow(collection, days_back)),
          queried |-> <<days_back>>]

\* fetch_regional_gas_data(gas, days_back), lines 91-170: the image returned
\* and the windows, in days, for which the collection's size was asked.
\* ee_initialized is the answer of _ensure_ee(); raises says that the
\* collection request raises.
RegionalFetch(gas, days_back, ee_initialized, collection, raises) ==
    IF ~ee_initialized \/ gas \notin Gases
    THEN [image |-> NoImage, queried |-> <<>>]
    ELSE IF raises
    THEN [image |-> NoImage, queried |-> <<days_back>>]
    ELSE LET first == InWindow(collection, days_back)
             extended == InWindow(collection, days_back * 3)
         IN  IF first # <<>>
             THEN [image |-> FirstValid(first), queried |-> <<days_back>>]
             ELSE [image |-> FirstValid(extended),
                   queried |-> <<days_back, days_back * 3>>]

\* the images a collection holds at most
MaxImages == 2

\* ages of images: within days_back, within 3 * days_back, older
ImageAges == {3, 15, 30}

\* the collections: at most MaxImages images of different passes, newest
\* first
CollectionInputs ==
    {s \in UNION {[1..n -> [age : ImageAges, valid : BOOLEAN]] : n \in 0..MaxImages} :
        \A i, j \in DOMAIN s : i < j => s[i].age < s[j].age}

FetchInit ==
    /\ ft_ee \in BOOLEAN
    /\ ft_collection \in [Gases -> CollectionInputs]
    /\ ft_outage \in SUBSET Gases
    /\ ft_cities \in 1..Len(CityList)
    /\ ft_next = 1
    /\ ft_city_next = 1
    /\ ft_calls = [g \in Gases |-> 0]
    /\ ft_queries = [g \in Gases |-> <<>>]
    /\ ft_images = EmptyDict
    /\ ft_phase = "fetching"
    /\ RestIdle
    /\ StaleIdle
    /\ CategoryIdle
    /\ ExtractIdle
    /\ InterleaveIdle

\* lines 271-274: one turn of the gas loop
FetchGas ==
    /\ ft_phase = "fetching"
    /\ ft_next <= Len(GasList)
    /\ LET gas == GasList[ft_next]
           fetched == RegionalFetch(gas, DaysBack, ft_ee, ft_collection[gas],
                                    gas \in ft_outage)
       IN  /\ ft_calls' = [ft_calls EXCEPT ![gas] = @ + 1]
           /\ ft_queries' = [ft_queries EXCEPT ![gas] = @ \o fetched.queried]
           /\ ft_images' = IF fetched.image # NoImage
                           THEN [g \in DOMAIN ft_images \cup {gas} |->
                                    IF g = gas THEN fetched.image ELSE ft_images[g]]
                           ELSE ft_images
    /\ ft_next' = ft_next + 1
    /\ UNCHANGED <<ft_ee, ft_collection, ft_outage, ft_cities, ft_city_next, ft_phase>>
    /\ UNCHANGED <<rest_vars, stale_vars, category_vars, extract_vars, interleave_vars>>

\* lines 282-284: after the gas loop the scan ends without data or goes on
\* to the cities
EndGasLoop ==
    /\ ft_phase = "fetching"
    /\ ft_next > Len(GasList)
    /\ ft_phase' = IF ft_images = EmptyDict THEN "no_data" ELSE "extracting"
    /\ UNCHANGED <<ft_ee, ft_collection, ft_outage, ft_cities, ft_next, ft_city_next,
                   ft_calls, ft_queries, ft_images>>
    /\ UNCHANGED <<rest_vars, stale_vars, category_vars, extract_vars, interleave_vars>>

\* lines 292-347: one turn of the city loop, which reads the fetched images
\* and asks the collections nothing
ExtractCity ==
    /\ ft_phase = "extracting"
    /\ ft_city_next <= ft_cities
    /\ ft_city_next' = ft_city_next + 1
    /\ UNCHANGED <<ft_ee, ft_collection, ft_outage, ft_cities, ft_next, ft_calls,
                   ft_queries, ft_images, ft_phase>>
    /\ UNCHANGED <<rest_vars, stale_vars, category_vars, extract_vars, interleave_vars>>

\* lines 349-377: the scan returns
EndScan ==
    /\ ft_phase = "extracting"
    /\ ft_city_next > ft_cities
    /\ ft_phase' = "done"
    /\ UNCHANGED <<ft_ee, ft_collection, ft_outage, ft_cities, ft_next, ft_city_next,
                   ft_calls, ft_queries, ft_images>>
    /\ UNCHANGED <<rest_vars, stale_vars, category_vars, extract_vars, interleave_vars>>

FetchNext ==
    \/ FetchGas
    \/ EndGasLoop
    \/ ExtractCity
    \/ EndScan

SpecFetch == FetchInit /\ [][FetchNext]_vars

\* the scan has returned
ScanOver == ft_phase \in {"no_data", "done"}

\* the windows asked for when the first query answers: days_back, and
\* 3 * days_back after an empty answer
WindowsAsked(gas) ==
    IF gas \notin ft_outage /\ InWindow(ft_collection[gas], DaysBack) = <<>>
    THEN <<DaysBack, 3 * DaysBack>>
    ELSE <<DaysBack>>

\* the gas has an image after the retry
FoundInRetry(gas) ==
    /\ gas \notin ft_outage
    /\ InWindow(ft_collection[gas], 3 * DaysBack) # <<>>

\* C24 as stated: in one scan each configured gas is fetched by exactly one
\* fetch_regional_gas_data call, however many cities are scanned; that call
\* asks the collection once for the days_back window and, only after an
\* empty answer, once more for the 3 * days_back window; a gas still empty
\* then has no image, and the loop goes on to the next gas.
C24_OneFetchOneRetry ==
    ScanOver =>
        \A gas \in Gases :
            /\ ft_calls[gas] = 1
            /\ ft_queries[gas] = WindowsAsked(gas)
            /\ ~FoundInRetry(gas) => gas \notin DOMAIN ft_images

\* C24 amended: the same when Earth Engine is initialised; when it is not,
\* each gas is still fetched by one call, which asks the collection nothing
\* and leaves the gas without image.
C24_OneFetchOneRetryAmended ==
    ScanOver =>
        \A gas \in Gases :
            /\ ft_calls[gas] = 1
            /\ ft_ee => ft_queries[gas] = WindowsAsked(gas)
            /\ ~ft_ee => ft_queries[gas] = <<>>
            /\ (~FoundInRetry(gas) \/ ~ft_ee) => gas \notin DOMAIN ft_images

\* the first gas is empty in both windows and is left out; the loop went on
\* and found the second gas's image in the retry; every city was scanned
C24_Witness ==
    /\ ft_phase = "done" /\ ft_ee /\ ft_outage = {}
    /\ ft_cities = Len(CityList)
    /\ ft_queries[GasList[1]] = <<DaysBack, 3 * DaysBack>>
    /\ GasList[1] \notin DOMAIN ft_images
    /\ ft_collection[GasList[1]] # <<>>
    /\ ft_queries[GasList[2]] = <<DaysBack, 3 * DaysBack>>
    /\ GasList[2] \in DOMAIN ft_images
    /\ ft_images[GasList[2]].age > DaysBack
    /\ \A gas \in Gases : ft_calls[gas] = 1

-----------------------------------------------------------------------------
(* SpecInterleave: two scan_all_cities executions write one city's         *)
(* document; the get of line 432 and the set of line 455 are separate      *)
(* steps of each.                                                          *)

\* the two executions
Scanners == {1, 2}

\* the background scans a document may have counted before
MaxPrior == 2

\* a document with the counters; the snapshot fields play no part
CountedDoc(background_scans, user_scans) ==
    [last_updated |-> 0,
     monitoring_stats |-> [total_scans |-> background_scans + user_scans,
                           first_scan_date |-> 0,
                           background_scans |-> background_scans,
                           user_scans |-> user_scans]]

\* the city's document before the two scans: none, or one that earlier
\* background and user scans wrote
InterleaveDocs ==
    {EmptyDict}
    \cup ({CountedDoc(b, u) : b \in 0..MaxPrior, u \in 0..1} \ {CountedDoc(0, 0)})

InterleaveInit ==
    /\ il_doc \in InterleaveDocs
    /\ il_initial = il_doc
    /\ il_pc = [p \in Scanners |-> "get"]
    /\ il_read = [p \in Scanners |-> EmptyDict]
    /\ RestIdle
    /\ StaleIdle
    /\ CategoryIdle
    /\ FetchIdle
    /\ ExtractIdle

\* lines 432-435: the execution reads the document's monitoring_stats
GetDoc(p) ==
    /\ il_pc[p] = "get"
    /\ il_read' = [il_read EXCEPT ![p] = Get(il_doc, "monitoring_stats", EmptyDict)]
    /\ il_pc' = [il_pc EXCEPT ![p] = "set"]
    /\ UNCHANGED <<il_doc, il_initial>>
    /\ UNCHANGED <<rest_vars, stale_vars, category_vars, fetch_vars, extract_vars>>

\* lines 438-455: the execution sets the document with counters one above
\* those it read
SetDoc(p) ==
    /\ il_pc[p] = "set"
    /\ il_doc' = [last_updated |-> NowMs(p),
                  monitoring_stats |-> MonitoringStats(il_read[p], NowMs(p))]
    /\ il_pc' = [il_pc EXCEPT ![p] = "done"]
    /\ UNCHANGED <<il_read, il_initial>>
    /\ UNCHANGED <<rest_vars, stale_vars, category_vars, fetch_vars, extract_vars>>

\* lines 457-458: the get or the set raises and the execution logs the
\* failure and leaves the city
GetOrSetRaises(p) ==
    /\ il_pc[p] \in {"get", "set"}
    /\ il_pc' = [il_pc EXCEPT ![p] = "failed"]
    /\ UNCHANGED <<il_doc, il_initial, il_read>>
    /\ UNCHANGED <<rest_vars, stale_vars, category_vars, fetch_vars, extract_vars>>

InterleaveNext ==
    \E p \in Scanners :
        \/ GetDoc(p)
        \/ SetDoc(p)
        \/ GetOrSetRaises(p)

SpecInterleave == InterleaveInit /\ [][InterleaveNext]_vars

\* total_scans of a document, 0 when there is none
TotalScans(doc) == Get(Get(doc, "monitoring_stats", EmptyDict), "total_scans", 0)

\* both executions made their get and their set
BothWrote == \A p \in Scanners : il_pc[p] = "done"

\* C28: when two scans interleave their get and set of one city's document,
\* every document stored has total_scans = background_scans + user_scans,
\* and once both have made their get and set, total_scans is at least one
\* and at most two above its value before the two scans: an increment may
\* be lost, and the counters suffer nothing else (user_scans is kept).
C28_InterleavedCounters ==
    /\ il_doc # EmptyDict =>
          il_doc.monitoring_stats.total_scans
              = il_doc.monitoring_stats.background_scans
                + il_doc.monitoring_stats.user_scans
    /\ BothWrote =>
          /\ TotalScans(il_doc) >= TotalScans(il_initial) + 1
          /\ TotalScans(il_doc) <= TotalScans(il_initial) + 2
          /\ il_doc.monitoring_stats.user_scans
                = Get(Get(il_initial, "monitoring_stats", EmptyDict), "user_scans", 0)

\* both executions read the document before either set it: one increment is
\* lost
C28_Witness ==
    /\ BothWrote
    /\ il_initial # EmptyDict
    /\ il_read[1] = il_initial.monitoring_stats
    /\ il_read[2] = il_initial.monitoring_stats
    /\ TotalScans(il_doc) = TotalScans(il_initial) + 1
    /\ il_doc.monitoring_stats.user_scans = il_initial.monitoring_stats.user_scans

\* the second execution read what the first had set: both increments count
C28_SerialWitness ==
    /\ BothWrote
    /\ il_read[2] # il_read[1]
    /\ TotalScans(il_doc) = TotalScans(il_initial) + 2

====
